---- MODULE Spec2Model ----
(***************************************************************************)
(* Vark: a single-file archive (vark.h).  The archive file is modelled as  *)
(* a sequence of bytes, the engine (struct Vark) as a record, and every    *)
(* public function of vark.h as one action.                                *)
(***************************************************************************)
EXTENDS Integers, Sequences, FiniteSets, TLC

(***************************************************************************)
(* Bounds of the model.                                                    *)
(***************************************************************************)
\* longest source file, in bytes
MaxSrcLen == 3
\* most entries the catalog may hold
MaxFiles == 2
\* most operations with an injected write failure or crash in one behaviour
MaxFaults == 1
\* largest small offset / length passed to VarkDecompressFileSharded
MaxReq == 2
\* most FILE handles left open at once
MaxHandles == 2
\* the shard window: stands for VARK_DEFAULT_SHARD_SIZE (128 * 1024), scaled down
ShardSize == 2

(***************************************************************************)
(* Program constants.                                                      *)
(***************************************************************************)
VARK_PERSISTENT_FP == 1
VARK_MMAP == 2
VARK_WRITE == 4
VARK_COMPRESS_SHARDED == 1
\* Magic(4) + TableOffset(8)
HeaderSize == 12

\* the values of 32-bit and 64-bit fields too large for the model's integers
Huge == 2^30 + (2^30 - 1)

Has(flags, bit) == (flags \div bit) % 2 = 1

(***************************************************************************)
(* Bytes, little-endian fields.                                            *)
(***************************************************************************)
RECURSIVE LE(_, _)
LE(n, w) == IF w = 0 THEN <<>> ELSE <<n % 256>> \o LE(n \div 256, w - 1)

\* memcpy / fread of an integer field: its value, or Huge when it needs 31 bits or more
Val(b) ==
    LET n == Len(b)
        byte(i) == IF i <= n THEN b[i] ELSE 0
    IN  IF (\E i \in 5..n : b[i] # 0) \/ byte(4) >= 128
        THEN Huge
        ELSE byte(1) + 256 * byte(2) + 65536 * byte(3) + 16777216 * byte(4)

Zeros(n) == [i \in 1..n |-> 0]

Min(a, b) == IF a < b THEN a ELSE b
Max(a, b) == IF a > b THEN a ELSE b

\* bytes [pos, pos + n) of d, as many as there are (fread returns a short count at EOF)
ReadAt(d, pos, n) ==
    IF pos >= Len(d) THEN <<>>
    ELSE SubSeq(d, pos + 1, IF n >= Len(d) - pos THEN Len(d) ELSE pos + n)

\* fwrite at position pos: overwrites in place, extends the file, zero-fills a hole
WriteAt(d, pos, bytes) ==
    LET newLen == Max(Len(d), pos + Len(bytes))
    IN  [i \in 1..newLen |->
            IF i > pos /\ i <= pos + Len(bytes) THEN bytes[i - pos]
            ELSE IF i <= Len(d) THEN d[i] ELSE 0]

\* "VARK", "VSHF", "VSHD"
MagicVARK == <<86, 65, 82, 75>>
MagicVSHF == <<86, 83, 72, 70>>
MagicVSHD == <<86, 83, 72, 68>>

(***************************************************************************)
(* uint64_t arithmetic, exact: a value is its 8 little-endian bytes.       *)
(***************************************************************************)
U64(n) == LE(n, 8)
Max64 == [i \in 1..8 |-> 255]

RECURSIVE AddCarry(_, _, _, _)
AddCarry(a, b, i, c) ==
    IF i > 8 THEN <<>>
    ELSE LET t == a[i] + b[i] + c
         IN  <<t % 256>> \o AddCarry(a, b, i + 1, t \div 256)
\* a + b modulo 2^64
Add64(a, b) == AddCarry(a, b, 1, 0)

\* two's complement: -a modulo 2^64
Neg64(a) == Add64([i \in 1..8 |-> 255 - a[i]], U64(1))
\* a - b modulo 2^64
Sub64(a, b) == Add64(a, Neg64(b))

RECURSIVE LessFrom(_, _, _)
LessFrom(a, b, i) ==
    IF i = 0 THEN FALSE
    ELSE IF a[i] # b[i] THEN a[i] < b[i]
    ELSE LessFrom(a, b, i - 1)
Less64(a, b) == LessFrom(a, b, 8)
Min64(a, b) == IF Less64(a, b) THEN a ELSE b

RECURSIVE MulCarry(_, _, _, _)
MulCarry(a, m, i, c) ==
    IF i > 8 THEN <<>>
    ELSE LET t == a[i] * m + c
         IN  <<t % 256>> \o MulCarry(a, m, i + 1, t \div 256)
\* a * m modulo 2^64, m a small number
Mul64(a, m) == MulCarry(a, m, 1, 0)

RECURSIVE DivRem(_, _, _, _)
DivRem(a, d, i, r) ==
    IF i = 0 THEN <<>>
    ELSE LET cur == r * 256 + a[i]
         IN  DivRem(a, d, i - 1, cur % d) \o <<cur \div d>>
\* a / d, d a small number
Div64(a, d) == DivRem(a, d, 8, 0)

\* (uint32_t) a, widened again to 64 bits
Trunc32(a) == [i \in 1..8 |-> IF i <= 4 THEN a[i] ELSE 0]

(***************************************************************************)
(* VarkHash: FNV-1a 64.                                                    *)
(***************************************************************************)
RECURSIVE Xor8(_, _, _)
Xor8(a, b, bits) ==
    IF bits = 0 THEN 0
    ELSE ((a + b) % 2) + 2 * Xor8(a \div 2, b \div 2, bits - 1)

\* 14695981039346656037 = 0xCBF29CE484222325
FnvBasis == <<37, 35, 34, 132, 228, 156, 242, 203>>
\* the prime of the 32-bit FNV, 16777619 = 2^24 + 403, in its place
MulPrime32(hash) ==
    Add64(Mul64(hash, 403), [i \in 1..8 |-> IF i <= 3 THEN 0 ELSE hash[i - 3]])
\* hash * 1099511628211 modulo 2^64: the prime is 2^40 + 435
MulPrime(hash) ==
    Add64(Mul64(hash, 435), [i \in 1..8 |-> IF i <= 5 THEN 0 ELSE hash[i - 5]])

RECURSIVE HashFrom(_, _, _)
HashFrom(hash, bytes, i) ==
    IF i > Len(bytes) THEN hash
    ELSE HashFrom(MulPrime([hash EXCEPT ![1] = Xor8(hash[1], bytes[i], 8)]),
                  bytes, i + 1)
VarkHash(bytes) == HashFrom(FnvBasis, bytes, 1)

(***************************************************************************)
(* The LZ codec (lzav.h), a black box of the engine: a frame is the length *)
(* byte followed by the complemented source bytes.                         *)
(***************************************************************************)
lzav_compress_default(s) ==
    IF s = <<>> THEN <<>> ELSE <<Len(s)>> \o [i \in 1..Len(s) |-> 255 - s[i]]

\* the decoded bytes, or <<-1>> for a negative result (error, or a length other than ulen)
LzavError == <<-1>>
lzav_decompress(c, ulen) ==
    IF Len(c) >= 1 /\ c[1] = Len(c) - 1 /\ c[1] = ulen
    THEN [i \in 1..ulen |-> 255 - c[i + 1]]
    ELSE LzavError

(***************************************************************************)
(* Paths.  A path is its bytes; '/' is 47 and '\' is 92.                   *)
(***************************************************************************)
PathA == <<97>>
PathDB == <<100, 47, 98>>
PathDBw == <<100, 92, 98>>
PathX == <<120>>
\* the paths callers pass: PathDBw names the source file d/b, PathX names none
CallPaths == {PathA, PathDBw, PathX}
\* the paths of the two source files, as callers spell them
ReadPaths == {PathA, PathDBw}

\* std::filesystem::path::generic_string(): the separators become '/'
GenericString(p) == [i \in 1..Len(p) |-> IF p[i] = 92 THEN 47 ELSE p[i]]

SrcPaths == {PathA, PathDB}
\* a source of length n whose bytes differ by position and by file
Content(base, n) == [i \in 1..n |-> base + i]

\* the archive's path, and the path of an engine never opened
ArchivePath == "arc"
NoPath == ""

(***************************************************************************)
(* State.                                                                  *)
(***************************************************************************)
VARIABLES
    vark,     \* struct Vark
    disk,     \* the bytes of the archive file
    exists,   \* whether the archive file exists
    src,      \* the source files: generic path -> bytes
    faults,   \* injected faults: failed writes, crashes, changed bytes
    handles,  \* the FILE handles the calls have opened and not closed
    last      \* the last call: its arguments and what it returned

vars == <<vark, disk, exists, src, faults, handles, last>>

EmptyMap == [x \in {} |-> 0]
MapPut(m, k, v) == [x \in DOMAIN m \cup {k} |-> IF x = k THEN v ELSE m[x]]

\* mio::mmap_source: no mapping (nullptr), or a mapping of `size` bytes of the file
NoMap == [open |-> FALSE, size |-> 0]
Mapping(n) == [open |-> TRUE, size |-> n]

\* struct Vark, default-constructed
NewVark ==
    [path |-> NoPath, files |-> <<>>, fileLookup |-> EmptyMap, size |-> 0,
     fp |-> FALSE, tempBuffer |-> <<>>, tempShardBuffer |-> <<>>,
     mmapHandle |-> NoMap, flags |-> 0]

\* struct VarkFile: the integer fields hold their little-endian bytes
NewVarkFile(path, offset, size, hash, shardSize) ==
    [path |-> path, offset |-> offset, size |-> size, hash |-> hash,
     shardSize |-> shardSize]

(***************************************************************************)
(* fwrite with injected failures.  sch.failAt = k makes the k-th fwrite of *)
(* the call fail (0: none); sch.sticky makes every later one fail too.  A  *)
(* failed fwrite writes nothing and leaves the position where it was.      *)
(***************************************************************************)
NoFault == [failAt |-> 0, sticky |-> FALSE]
Fails(sch, n) == sch.failAt # 0 /\ (n = sch.failAt \/ (sch.sticky /\ n > sch.failAt))

OpenAt(d, pos) == [disk |-> d, pos |-> pos, n |-> 0, ok |-> TRUE]
FSeek(io, pos) == [io EXCEPT !.pos = pos]
FWrite(io, bytes, sch) ==
    IF Fails(sch, io.n + 1)
    THEN [io EXCEPT !.n = io.n + 1, !.ok = FALSE]
    ELSE [disk |-> WriteAt(io.disk, io.pos, bytes), pos |-> io.pos + Len(bytes),
          n |-> io.n + 1, ok |-> TRUE]

\* fwrite calls whose results the code ignores
RECURSIVE FWriteAll(_, _, _)
FWriteAll(io, pieces, sch) ==
    IF pieces = <<>> THEN io
    ELSE FWriteAll(FWrite(io, Head(pieces), sch), Tail(pieces), sch)

(***************************************************************************)
(* VarkCreateArchive                                                       *)
(***************************************************************************)
\* the flags compared with WRITE | MMAP as a whole: a third bit hides the conflict
ModeConflictExact(flags) == flags = VARK_WRITE + VARK_MMAP
ModeConflict(flags) == Has(flags, VARK_WRITE) /\ Has(flags, VARK_MMAP)

VarkCreateArchive(v, d, ex, flags, sch) ==
    IF ModeConflict(flags)
    THEN [ret |-> "fail", vark |-> v, disk |-> d, exists |-> ex, n |-> 0]
    ELSE
    \* fopen "w+b" truncates
    LET io1 == FWrite(OpenAt(<<>>, 0), MagicVARK, sch)
        io2 == FWrite(io1, U64(HeaderSize), sch)
        io3 == FWrite(io2, U64(0), sch)
        failed(io) == [ret |-> "fail", vark |-> v, disk |-> io.disk, exists |-> TRUE,
                       n |-> io.n]
    IN  IF ~io1.ok THEN failed(io1)
        ELSE IF ~io2.ok THEN failed(io2)
        ELSE IF ~io3.ok THEN failed(io3)
        ELSE [ret |-> "ok",
              vark |-> [v EXCEPT !.path = ArchivePath, !.files = <<>>,
                                 !.fileLookup = EmptyMap, !.size = io3.pos,
                                 !.flags = flags,
                                 !.fp = IF Has(flags, VARK_PERSISTENT_FP) THEN TRUE ELSE @],
              disk |-> io3.disk, exists |-> TRUE, n |-> io3.n]

(***************************************************************************)
(* VarkLoadArchive                                                         *)
(***************************************************************************)
VarkReadString(d, pos) ==
    LET lenBytes == ReadAt(d, pos, 4)
        len == Val(lenBytes)
        body == ReadAt(d, pos + 4, len)
    IN  IF Len(lenBytes) # 4 THEN [s |-> <<>>, pos |-> pos + Len(lenBytes)]
        ELSE IF len = 0 THEN [s |-> <<>>, pos |-> pos + 4]
        ELSE IF Len(body) # len THEN [s |-> <<>>, pos |-> pos + 4 + Len(body)]
        ELSE [s |-> body, pos |-> pos + 4 + len]

\* the loop over the entry records: stops at the first short read
RECURSIVE ReadEntries(_, _, _, _, _, _)
ReadEntries(d, pos, i, count, files, lookup) ==
    IF i = count THEN [ok |-> TRUE, pos |-> pos, files |-> files, lookup |-> lookup]
    ELSE
    LET rs == VarkReadString(d, pos)
        offset == ReadAt(d, rs.pos, 8)
        size == ReadAt(d, rs.pos + 8, 8)
        hash == ReadAt(d, rs.pos + 16, 8)
        vf == NewVarkFile(rs.s, offset, size, hash, LE(0, 4))
    IN  IF Len(offset) # 8 \/ Len(size) # 8 \/ Len(hash) # 8
        THEN [ok |-> FALSE, pos |-> pos, files |-> files, lookup |-> lookup]
        ELSE ReadEntries(d, rs.pos + 24, i + 1, count, Append(files, vf),
                         MapPut(lookup, GenericString(rs.s), Len(files)))

\* the shard sizes read whatever count the block gives
ReadShardSizesAnyCount(d, pos, countBytes, files) ==
    LET field(i) == ReadAt(d, pos + 12 + 4 * (i - 1), 4)
    IN  IF ReadAt(d, pos, 4) = MagicVSHD /\ Len(ReadAt(d, pos + 4, 8)) = 8
        THEN [i \in 1..Len(files) |->
                 [files[i] EXCEPT !.shardSize = field(i) \o Zeros(4 - Len(field(i)))]]
        ELSE files
\* the VSHD extension block at pos: the entries with their shardSize read
ReadShardSizes(d, pos, countBytes, files) ==
    LET magic == ReadAt(d, pos, 4)
        shardCount == ReadAt(d, pos + 4, 8)
        field(i) == ReadAt(d, pos + 12 + 4 * (i - 1), 4)
    IN  IF magic = MagicVSHD /\ Len(shardCount) = 8 /\ shardCount = countBytes
        THEN [i \in 1..Len(files) |->
                 [files[i] EXCEPT !.shardSize = field(i) \o Zeros(4 - Len(field(i)))]]
        ELSE files

VarkLoadArchive(v, d, ex, flags) ==
    LET magic == ReadAt(d, 0, 4)
        tableOffsetBytes == ReadAt(d, 4, 8)
        tableOffset == Val(tableOffsetBytes)
        countBytes == ReadAt(d, tableOffset, 8)
        count == Val(countBytes)
        cleared == [v EXCEPT !.files = <<>>, !.fileLookup = EmptyMap]
        re == ReadEntries(d, tableOffset + 8, 0, count, <<>>, EmptyMap)
        read == [cleared EXCEPT !.path = ArchivePath, !.files = re.files,
                                !.fileLookup = re.lookup]
        files == IF count > 0 THEN ReadShardSizes(d, re.pos, countBytes, re.files)
                 ELSE re.files
    IN  IF ModeConflict(flags) THEN [ret |-> "fail", vark |-> v]
        ELSE IF ~ex THEN [ret |-> "fail", vark |-> v]
        ELSE IF magic # MagicVARK THEN [ret |-> "fail", vark |-> v]
        ELSE IF Len(tableOffsetBytes) # 8 \/ tableOffset = Huge
             THEN [ret |-> "fail", vark |-> v]
        ELSE IF Len(countBytes) # 8 THEN [ret |-> "fail", vark |-> v]
        \* reserve( count ) of 2^31 entries or more
        ELSE IF count = Huge THEN [ret |-> "undefined", vark |-> cleared]
        ELSE IF ~re.ok THEN [ret |-> "fail", vark |-> read]
        ELSE [ret |-> "ok",
              vark |-> [read EXCEPT
                  !.files = files,
                  !.size = Len(d),
                  !.flags = flags,
                  !.mmapHandle = IF Has(flags, VARK_MMAP) THEN Mapping(Len(d)) ELSE @,
                  !.fp = IF Has(flags, VARK_PERSISTENT_FP) THEN TRUE ELSE @]]

(***************************************************************************)
(* VarkCloseArchive                                                        *)
(***************************************************************************)
VarkCloseArchive(v) ==
    [v EXCEPT
        !.mmapHandle = IF Has(v.flags, VARK_MMAP) /\ v.mmapHandle.open THEN NoMap ELSE @,
        !.fp = FALSE,
        !.tempBuffer = <<>>,
        !.tempShardBuffer = <<>>,
        !.fileLookup = EmptyMap]

(***************************************************************************)
(* VarkCompressAppendFile                                                  *)
(***************************************************************************)
RECURSIVE Flatten(_)
Flatten(ss) == IF ss = <<>> THEN <<>> ELSE Head(ss) \o Flatten(Tail(ss))

SelectNonEmpty(ss) == SelectSeq(ss, LAMBDA c : c # <<>>)

\* the division rounded down: the last, shorter shard is lost
ShardCountFloor(srcLen) == srcLen \div ShardSize
\* shardCount = (srcLen + shardSize - 1) / shardSize, 0 for an empty source
ShardCountOf(srcLen) == IF srcLen = 0 THEN 0 ELSE (srcLen + ShardSize - 1) \div ShardSize

\* the compressed chunks of the source, one per shard
ShardChunks(srcData) ==
    [i \in 1..ShardCountOf(Len(srcData)) |->
        LET chunkStart == (i - 1) * ShardSize
            chunkLen == Min(ShardSize, Len(srcData) - chunkStart)
        IN  lzav_compress_default(SubSeq(srcData, chunkStart + 1, chunkStart + chunkLen))]

\* the compressed length of each chunk, not summed up
RECURSIVE ShardOffsetsPerChunk(_, _, _)
ShardOffsetsPerChunk(chunks, i, currentOffset) ==
    IF i > Len(chunks) THEN <<>>
    ELSE <<U64(Len(chunks[i]))>> \o ShardOffsetsPerChunk(chunks, i + 1, currentOffset)
\* tempShardBuffer: the cumulative compressed lengths, shardCount + 1 of them
RECURSIVE ShardOffsets(_, _, _)
ShardOffsets(chunks, i, currentOffset) ==
    IF i > Len(chunks) THEN <<>>
    ELSE <<U64(currentOffset + Len(chunks[i]))>>
         \o ShardOffsets(chunks, i + 1, currentOffset + Len(chunks[i]))

\* the fwrite calls of one entry record (VarkWriteString, offset, size, hash)
EntryWrites(f) ==
    LET s == GenericString(f.path)
    IN  <<LE(Len(s), 4)>> \o (IF Len(s) > 0 THEN <<s>> ELSE <<>>)
        \o <<f.offset, f.size, f.hash>>

RECURSIVE TableWrites(_, _)
TableWrites(files, i) ==
    IF i > Len(files) THEN <<>> ELSE EntryWrites(files[i]) \o TableWrites(files, i + 1)

\* the new entry put first in the catalog
PushFileFront(v, newFile) ==
    [v EXCEPT !.fileLookup = MapPut([k \in DOMAIN @ |-> @[k] + 1],
                                    GenericString(newFile.path), 0),
              !.files = <<newFile>> \o @]
\* the catalog update of lines 663-664
PushFile(v, newFile) ==
    [v EXCEPT !.fileLookup = MapPut(@, GenericString(newFile.path), Len(v.files)),
              !.files = Append(@, newFile)]

\* the shard sizes written last entry first
ShardSizeWritesReversed(files) ==
    [i \in 1..Len(files) |-> files[Len(files) + 1 - i].shardSize]
\* the fwrite calls of line 681: the shard size of every entry, in catalog order
ShardSizeWrites(files) == [i \in 1..Len(files) |-> files[i].shardSize]

\* everything from the catalog update to the end: the trailer, then the header pointer
WriteTable(v, io0, newFile, sch) ==
    LET v1 == PushFile(v, newFile)
        newTableOffset == io0.pos
        count == U64(Len(v1.files))
        io1 == FWrite(io0, count, sch)
        io2 == FWriteAll(io1, TableWrites(v1.files, 1), sch)
        io3 == FWriteAll(io2, <<MagicVSHD, count>> \o ShardSizeWrites(v1.files), sch)
        io4 == FWrite(FSeek(io3, 4), U64(newTableOffset), sch)
    IN  IF ~io1.ok THEN [ret |-> "fail", vark |-> v1, disk |-> io1.disk, n |-> io1.n]
        ELSE IF ~io4.ok THEN [ret |-> "fail", vark |-> v1, disk |-> io4.disk, n |-> io4.n]
        ELSE [ret |-> "ok", vark |-> [v1 EXCEPT !.size = Len(io4.disk)],
              disk |-> io4.disk, n |-> io4.n]

\* newFile.size = 4 + 4 + 8 + (shardCount + 1) * 8 + currentOffset
ShardedBodySize(shardCount, currentOffset) ==
    4 + 4 + 8 + (shardCount + 1) * 8 + currentOffset

AppendSharded(v, io0, file, srcData, tableOffsetBytes, sch) ==
    LET shardCount == ShardCountOf(Len(srcData))
        chunks == ShardChunks(srcData)
        offsets == <<U64(0)>> \o ShardOffsets(chunks, 1, 0)
        currentOffset == Len(Flatten(chunks))
        v1 == [v EXCEPT !.tempShardBuffer = offsets]
        io1 == FWriteAll(io0, <<MagicVSHF, LE(shardCount, 4), U64(Len(srcData)),
                                Flatten(offsets)>> \o SelectNonEmpty(chunks), sch)
        newFile == NewVarkFile(file, tableOffsetBytes,
                               U64(ShardedBodySize(shardCount, currentOffset)),
                               VarkHash(srcData), LE(ShardSize, 4))
    IN  WriteTable(v1, io1, newFile, sch)

AppendWhole(v, io0, file, srcData, tableOffsetBytes, sch) ==
    LET dstData == lzav_compress_default(srcData)
        compressedLen == Len(dstData)
        io1 == FWrite(io0, U64(Len(srcData)), sch)
        io2 == IF compressedLen > 0 THEN FWrite(io1, dstData, sch) ELSE io1
        newFile == NewVarkFile(file, tableOffsetBytes, U64(8 + compressedLen),
                               VarkHash(srcData), LE(0, 4))
    IN  IF compressedLen = 0 /\ Len(srcData) > 0
        THEN [ret |-> "fail", vark |-> v, disk |-> io0.disk, n |-> io0.n]
        ELSE IF ~io1.ok THEN [ret |-> "fail", vark |-> v, disk |-> io1.disk, n |-> io1.n]
        ELSE IF ~io2.ok THEN [ret |-> "fail", vark |-> v, disk |-> io2.disk, n |-> io2.n]
        ELSE WriteTable(v, io2, newFile, sch)

\* the seek left out: the file stays where the read of the header field left it
SeekTableMissing(d, tableOffset) == OpenAt(d, HeaderSize)
\* VARK_FSEEK( fp, (long long)tableOffset, SEEK_SET )
SeekTable(d, tableOffset) == OpenAt(d, tableOffset)

\* srcs: the source files; sch: the injected write failures.  n: fwrite calls made
VarkCompressAppendFile(v, d, ex, srcs, file, flags, sch) ==
    LET untouched == [ret |-> "fail", vark |-> v, disk |-> d, n |-> 0]
        srcKey == GenericString(file)
        tableOffsetBytes == ReadAt(d, 4, 8)
        tableOffset == Val(tableOffsetBytes)
        io0 == SeekTable(d, tableOffset)
    IN  IF ~Has(v.flags, VARK_WRITE) THEN untouched
        \* fopen( file, "rb" )
        ELSE IF srcKey \notin DOMAIN srcs THEN untouched
        \* VarkAcquireWriteFP: the persistent handle, or fopen( vark.path, "r+b" )
        ELSE IF ~(Has(v.flags, VARK_PERSISTENT_FP) /\ v.fp)
                /\ ~(ex /\ v.path = ArchivePath) THEN untouched
        ELSE IF Len(tableOffsetBytes) # 8 \/ tableOffset = Huge THEN untouched
        ELSE IF Has(flags, VARK_COMPRESS_SHARDED)
             THEN AppendSharded(v, io0, file, srcs[srcKey], tableOffsetBytes, sch)
        ELSE AppendWhole(v, io0, file, srcs[srcKey], tableOffsetBytes, sch)

(***************************************************************************)
(* Reading.  The result of a call is "ok" (true), "fail" (false), "throw"  *)
(* (an exception of the standard library leaves the call) or "undefined"   *)
(* (the call reads or writes outside a buffer or the mapping, or asks for  *)
(* 2^31 bytes or more: what it does then is not determined here).  The     *)
(* output vector `data` is modelled for "ok" only.                         *)
(***************************************************************************)
\* std::vector::resize( n ) followed by a read of `bytes` into its start
ResizeFill(old, n, bytes) ==
    [i \in 1..n |-> IF i <= Len(bytes) THEN bytes[i]
                    ELSE IF i <= Len(old) THEN old[i] ELSE 0]

\* the mapping holds the file; a read past its end is outside the mapping
InMap(d, pos, n) == pos # Huge /\ n # Huge /\ pos + n <= Len(d)

\* the 8-byte elements of an offset array of n elements stored at pos, those fully there
OffsetArray(d, pos, n) ==
    LET avail == IF pos >= Len(d) THEN 0 ELSE (Len(d) - pos) \div 8
    IN  [i \in 1..Min(n, avail) |-> ReadAt(d, pos + 8 * (i - 1), 8)]

\* VarkParseVSHF_Fp, the file positioned at pos
VarkParseVSHF_Fp(v, d, pos) ==
    LET vshf == ReadAt(d, pos, 4)
        shardCountBytes == ReadAt(d, pos + 4, 4)
        shardCount == Val(shardCountBytes)
        total == ReadAt(d, pos + 8, 8)
        offsets == OffsetArray(d, pos + 16, shardCount + 1)
        bad(r, vv) == [ret |-> r, vark |-> vv, shardCount |-> 0, total |-> U64(0),
                       offsets |-> <<>>, dataStartPos |-> 0]
    IN  IF vshf # MagicVSHF THEN bad("fail", v)
        ELSE IF Len(shardCountBytes) # 4 THEN bad("fail", v)
        ELSE IF Len(total) # 8 THEN bad("fail", v)
        ELSE IF shardCount = Huge THEN bad("undefined", v)
        ELSE IF Len(offsets) # shardCount + 1
             THEN bad("fail", [v EXCEPT !.tempShardBuffer = offsets])
        ELSE [ret |-> "ok", vark |-> [v EXCEPT !.tempShardBuffer = offsets],
              shardCount |-> shardCount, total |-> total, offsets |-> offsets,
              dataStartPos |-> pos + 16 + 8 * (shardCount + 1)]

\* needed = 16 + (size_t)(out.shardCount + 1) * 8
VSHFNeeded(shardCount) == 16 + (shardCount + 1) * 8

\* VarkParseVSHF_MMAP, ptr = mmap->data() + pos
VarkParseVSHF_MMAP(v, d, pos, entrySize) ==
    LET shardCount == Val(ReadAt(d, pos + 4, 4))
        total == ReadAt(d, pos + 8, 8)
        needed == VSHFNeeded(shardCount)
        offsets == OffsetArray(d, pos + 16, shardCount + 1)
        bad(r) == [ret |-> r, vark |-> v, shardCount |-> 0, total |-> U64(0),
                   offsets |-> <<>>, dataStartPos |-> 0]
    IN  IF entrySize < 16 THEN bad("fail")
        ELSE IF ~InMap(d, pos, 4) THEN bad("undefined")
        ELSE IF ReadAt(d, pos, 4) # MagicVSHF THEN bad("fail")
        ELSE IF ~InMap(d, pos, 16) \/ shardCount = Huge THEN bad("undefined")
        ELSE IF entrySize < needed THEN bad("fail")
        ELSE IF ~InMap(d, pos, needed) THEN bad("undefined")
        ELSE [ret |-> "ok", vark |-> [v EXCEPT !.tempShardBuffer = offsets],
              shardCount |-> shardCount, total |-> total, offsets |-> offsets,
              dataStartPos |-> pos + needed]

\* one round of the loop of VarkDecompressShards and the rounds after it
RECURSIVE ShardLoop(_, _, _, _, _, _, _, _, _)
ShardLoop(st, d, mapped, hdr, shardSize, totalVal, i, firstShard, lastShard) ==
    IF i > lastShard \/ st.ret # "ok" THEN st
    ELSE
    LET shardStart == i * shardSize
        shardEnd == Min(shardStart + shardSize, totalVal)
        cSize == Val(Sub64(hdr.offsets[i + 2], hdr.offsets[i + 1]))
        uSize == shardEnd - shardStart
        dst == (i - firstShard) * shardSize
        srcPos == hdr.dataStartPos + Val(hdr.offsets[i + 1])
        chunk == ReadAt(d, srcPos, cSize)
        tempBuffer == IF mapped THEN st.tempBuffer
                      ELSE ResizeFill(st.tempBuffer, cSize, chunk)
        res == lzav_decompress(chunk, uSize)
        stop(r) == [st EXCEPT !.ret = r]
    IN  IF i + 2 > Len(hdr.offsets) THEN stop("undefined")
        ELSE IF cSize = Huge \/ Val(hdr.offsets[i + 1]) = Huge \/ uSize <= 0
             THEN stop("undefined")
        ELSE IF mapped /\ ~InMap(d, srcPos, cSize) THEN stop("undefined")
        ELSE IF ~mapped /\ Len(chunk) # cSize
             THEN [st EXCEPT !.ret = "fail", !.tempBuffer = tempBuffer]
        ELSE IF dst + uSize > Len(st.data) THEN stop("undefined")
        ELSE IF res = LzavError
             THEN [st EXCEPT !.ret = "fail", !.tempBuffer = tempBuffer,
                             !.decoded = Append(@, i)]
        ELSE ShardLoop([st EXCEPT !.tempBuffer = tempBuffer,
                                  !.decoded = Append(@, i),
                                  !.data = WriteAt(@, dst, res)],
                       d, mapped, hdr, shardSize, totalVal, i + 1, firstShard, lastShard)

\* the slice taken from the start of the member, not of the first decoded shard
SliceOffsetInMember(offset, firstShard, shardSize) == offset
\* sliceOffset = offset - (uint64_t)firstShard * shardSize
SliceOffset(offset, firstShard, shardSize) == Sub64(offset, Mul64(firstShard, shardSize))

\* decoding from the member's first shard, whatever the offset
FirstShardOfMember(offset, shardSize) == U64(0)
\* firstShard = (uint32_t)(offset / shardSize)
FirstShard(offset, shardSize) == Trunc32(Div64(offset, shardSize))
\* lastShard = (uint32_t)((offset + size - 1) / shardSize)
LastShard(offset, size, shardSize) ==
    Trunc32(Div64(Sub64(Add64(offset, size), U64(1)), shardSize))

\* lastShardEnd = min( (uint64_t)(lastShard + 1) * shardSize, totalUncompressedSize );
\* lastShard + 1 is a uint32_t sum
LastShardEnd(offset, size, shardSize, total) ==
    Min64(Mul64(Trunc32(Add64(LastShard(offset, size, shardSize), U64(1))), shardSize),
          total)
\* oversizedLen = lastShardEnd - firstShardStart
OversizedLen(offset, size, shardSize, total) ==
    Sub64(LastShardEnd(offset, size, shardSize, total),
          Mul64(FirstShard(offset, shardSize), shardSize))

\* offset and size are uint64_t, given by their bytes
VarkDecompressShards(v, d, mapped, hdr, shardSize, offset, size) ==
    LET firstShard == FirstShard(offset, shardSize)
        lastShard == LastShard(offset, size, shardSize)
        firstShardStart == Mul64(firstShard, shardSize)
        sliceOffset == SliceOffset(offset, firstShard, shardSize)
        oversizedLen == OversizedLen(offset, size, shardSize, hdr.total)
        st0 == [ret |-> "ok", data |-> Zeros(Val(oversizedLen)),
                tempBuffer |-> v.tempBuffer, decoded |-> <<>>]
        st1 == IF Less64(lastShard, firstShard) THEN st0
               ELSE IF Val(firstShard) = Huge THEN [st0 EXCEPT !.ret = "undefined"]
               ELSE ShardLoop(st0, d, mapped, hdr, shardSize, Val(hdr.total),
                              Val(firstShard), Val(firstShard), Val(lastShard))
        out(r, data, decoded, tempBuffer) ==
            [ret |-> r, data |-> data, decoded |-> decoded,
             vark |-> [v EXCEPT !.tempBuffer = tempBuffer]]
        early(r) == out(r, <<>>, <<>>, v.tempBuffer)
    IN  IF size = U64(0) THEN early("ok")
        ELSE IF shardSize = Huge THEN early("undefined")
        \* data.resize( oversizedLen ) beyond max_size() throws std::length_error
        ELSE IF oversizedLen[8] >= 128 THEN early("throw")
        ELSE IF Val(oversizedLen) = Huge THEN early("undefined")
        ELSE IF st1.ret # "ok" THEN out(st1.ret, <<>>, st1.decoded, st1.tempBuffer)
        \* memmove( data, data + sliceOffset, size ); data.resize( size )
        ELSE IF Val(sliceOffset) = Huge \/ Val(size) = Huge
             THEN out("undefined", <<>>, st1.decoded, st1.tempBuffer)
        ELSE IF Val(sliceOffset) > 0 /\ Val(sliceOffset) + Val(size) > Len(st1.data)
             THEN out("undefined", <<>>, st1.decoded, st1.tempBuffer)
        ELSE out("ok",
                 ResizeFill(<<>>, Val(size),
                            SubSeq(st1.data, Val(sliceOffset) + 1,
                                   Min(Val(sliceOffset) + Val(size), Len(st1.data)))),
                 st1.decoded, st1.tempBuffer)

\* the catalog lookup the three read functions start with: the entry, or NoEntry
NoEntry == [path |-> <<>>, offset |-> <<>>, size |-> <<>>, hash |-> <<>>,
            shardSize |-> <<>>]
Lookup(v, file) ==
    LET key == GenericString(file)
    IN  IF key \in DOMAIN v.fileLookup /\ v.fileLookup[key] + 1 \in DOMAIN v.files
        THEN v.files[v.fileLookup[key] + 1] ELSE NoEntry

\* VarkAcquireReadFP yields a handle: the persistent one, or one fopen opens
HasReadFP(v, ex) ==
    /\ ~(Has(v.flags, VARK_MMAP) /\ v.mmapHandle.open)
    /\ \/ Has(v.flags, VARK_PERSISTENT_FP) /\ v.fp
       \/ ex /\ v.path = ArchivePath
\* mmap != nullptr
UsesMap(v) == Has(v.flags, VARK_MMAP) /\ v.mmapHandle.open

ReadResult(r, data, decoded, v) == [ret |-> r, data |-> data, decoded |-> decoded, vark |-> v]

\* the sharded branch shared by VarkDecompressFile and VarkDecompressFileSharded:
\* full = TRUE asks for [0, totalUncompressedSize)
DecompressEntrySharded(v, d, ex, entry, full, offset, size) ==
    LET pos == Val(entry.offset)
        hdr == IF UsesMap(v) THEN VarkParseVSHF_MMAP(v, d, pos, Val(entry.size))
               ELSE VarkParseVSHF_Fp(v, d, pos)
    IN  IF ~UsesMap(v) /\ ~HasReadFP(v, ex) THEN ReadResult("fail", <<>>, <<>>, v)
        ELSE IF hdr.ret # "ok" THEN ReadResult(hdr.ret, <<>>, <<>>, hdr.vark)
        ELSE IF ~full /\ Less64(hdr.total, Add64(offset, size))
             THEN ReadResult("fail", <<>>, <<>>, hdr.vark)
        ELSE VarkDecompressShards(hdr.vark, d, UsesMap(v), hdr, Val(entry.shardSize),
                                  IF full THEN U64(0) ELSE offset,
                                  IF full THEN hdr.total ELSE size)

\* the whole-layout branch of VarkDecompressFile
DecompressEntryWhole(v, d, ex, entry) ==
    LET pos == Val(entry.offset)
        entrySize == Val(entry.size)
        compressedSize == entrySize - 8
        uncompressedSize == Val(ReadAt(d, pos, 8))
        frame == ReadAt(d, pos + 8, compressedSize)
        tempBuffer == ResizeFill(v.tempBuffer, compressedSize, frame)
        res == lzav_decompress(frame, uncompressedSize)
    IN  IF entrySize < 8 THEN ReadResult("fail", <<>>, <<>>, v)
        ELSE IF UsesMap(v) THEN
            IF entrySize = Huge \/ pos = Huge \/ pos + 8 + compressedSize > v.mmapHandle.size
                THEN ReadResult("fail", <<>>, <<>>, v)
            ELSE IF ~InMap(d, pos, entrySize) \/ uncompressedSize = Huge
                THEN ReadResult("undefined", <<>>, <<>>, v)
            ELSE IF uncompressedSize = 0 THEN ReadResult("ok", <<>>, <<>>, v)
            ELSE IF res = LzavError THEN ReadResult("fail", <<>>, <<>>, v)
            ELSE ReadResult("ok", res, <<>>, v)
        ELSE IF ~HasReadFP(v, ex) THEN ReadResult("fail", <<>>, <<>>, v)
        ELSE IF pos = Huge \/ Len(ReadAt(d, pos, 8)) # 8
            THEN ReadResult("fail", <<>>, <<>>, v)
        ELSE IF entrySize = Huge \/ uncompressedSize = Huge
            THEN ReadResult("undefined", <<>>, <<>>, v)
        ELSE IF compressedSize > 0 /\ Len(frame) # compressedSize
            THEN ReadResult("fail", <<>>, <<>>, [v EXCEPT !.tempBuffer = tempBuffer])
        ELSE IF uncompressedSize = 0
            THEN ReadResult("ok", <<>>, <<>>, [v EXCEPT !.tempBuffer = tempBuffer])
        ELSE IF res = LzavError
            THEN ReadResult("fail", <<>>, <<>>, [v EXCEPT !.tempBuffer = tempBuffer])
        ELSE ReadResult("ok", res, <<>>, [v EXCEPT !.tempBuffer = tempBuffer])

(***************************************************************************)
(* VarkDecompressFile                                                      *)
(***************************************************************************)
VarkDecompressFile(v, d, ex, file) ==
    LET entry == Lookup(v, file)
    IN  IF Has(v.flags, VARK_WRITE) THEN ReadResult("fail", <<>>, <<>>, v)
        ELSE IF entry = NoEntry THEN ReadResult("fail", <<>>, <<>>, v)
        ELSE IF Val(entry.shardSize) > 0
             THEN DecompressEntrySharded(v, d, ex, entry, TRUE, U64(0), U64(0))
        ELSE DecompressEntryWhole(v, d, ex, entry)

(***************************************************************************)
(* VarkDecompressFileSharded                                               *)
(***************************************************************************)
\* the call without its check of the engine's mode
VarkDecompressFileShardedAnyMode(v, d, ex, file, offset, size) ==
    LET entry == Lookup(v, file)
    IN  IF size = U64(0) THEN ReadResult("ok", <<>>, <<>>, v)
        ELSE IF entry = NoEntry THEN ReadResult("fail", <<>>, <<>>, v)
        ELSE IF Val(entry.shardSize) = 0 THEN ReadResult("fail", <<>>, <<>>, v)
        ELSE DecompressEntrySharded(v, d, ex, entry, FALSE, offset, size)

VarkDecompressFileSharded(v, d, ex, file, offset, size) ==
    LET entry == Lookup(v, file)
    IN  IF Has(v.flags, VARK_WRITE) THEN ReadResult("fail", <<>>, <<>>, v)
        ELSE IF size = U64(0) THEN ReadResult("ok", <<>>, <<>>, v)
        ELSE IF entry = NoEntry THEN ReadResult("fail", <<>>, <<>>, v)
        ELSE IF Val(entry.shardSize) = 0 THEN ReadResult("fail", <<>>, <<>>, v)
        ELSE DecompressEntrySharded(v, d, ex, entry, FALSE, offset, size)

(***************************************************************************)
(* VarkFileSize: outSize is given by its bytes                             *)
(***************************************************************************)
\* the size taken right behind the magic of a sharded body
SizeFieldAfterMagic(sharded, pos) == IF sharded THEN pos + 4 ELSE pos
\* where outSize is read: behind VSHF(4) + Count(4), or at the start of a whole body
SizeFieldAt(sharded, pos) == IF sharded THEN pos + 8 ELSE pos

\* a size query that releases the archive when it fails
VarkFileSizeClosing(v, d, ex, file) ==
    [ret |-> "fail", data |-> <<>>, decoded |-> <<>>, vark |-> VarkCloseArchive(v)]

VarkFileSize(v, d, ex, file) ==
    LET entry == Lookup(v, file)
        pos == Val(entry.offset)
        sharded == Val(entry.shardSize) > 0
        need == IF sharded THEN 16 ELSE 8
        field == ReadAt(d, SizeFieldAt(sharded, pos), 8)
        res(r, outSize) == [ret |-> r, data |-> outSize, decoded |-> <<>>, vark |-> v]
    IN  IF Has(v.flags, VARK_WRITE) THEN res("fail", <<>>)
        ELSE IF entry = NoEntry THEN res("fail", <<>>)
        ELSE IF Val(entry.size) < need THEN res("fail", <<>>)
        ELSE IF UsesMap(v) THEN
            IF pos = Huge \/ pos + need > v.mmapHandle.size THEN res("fail", <<>>)
            ELSE IF ~InMap(d, pos, need) THEN res("undefined", <<>>)
            ELSE IF sharded /\ ReadAt(d, pos, 4) # MagicVSHF THEN res("fail", <<>>)
            ELSE res("ok", field)
        ELSE IF ~HasReadFP(v, ex) THEN res("fail", <<>>)
        ELSE IF pos = Huge THEN res("fail", <<>>)
        ELSE IF sharded /\ ReadAt(d, pos, 4) # MagicVSHF THEN res("fail", <<>>)
        ELSE IF sharded /\ Len(ReadAt(d, pos + 4, 4)) # 4 THEN res("fail", <<>>)
        ELSE IF Len(field) # 8 THEN res("fail", <<>>)
        ELSE res("ok", field)

(***************************************************************************)
(* FILE handles.  VarkCreateArchive and VarkLoadArchive keep the handle    *)
(* they open in vark.fp or close it; the other calls hold theirs in a      *)
(* VarkFP, whose destructor closes a handle the call opened for itself.    *)
(***************************************************************************)
\* VarkAcquireReadFP opens a handle of its own (owns = true, fp not null)
OwnsReadFP(v, ex) ==
    /\ ~(Has(v.flags, VARK_MMAP) /\ v.mmapHandle.open)
    /\ ~(Has(v.flags, VARK_PERSISTENT_FP) /\ v.fp)
    /\ ex /\ v.path = ArchivePath
\* VarkAcquireWriteFP opens a handle of its own
OwnsWriteFP(v, ex) ==
    /\ ~(Has(v.flags, VARK_PERSISTENT_FP) /\ v.fp)
    /\ ex /\ v.path = ArchivePath
\* the open handles while the call holds its VarkFP, and after ~VarkFP()
Acquire(h, owns) == IF owns THEN h + 1 ELSE h
Release(h, owns) == IF owns THEN h - 1 ELSE h
\* the end of create and load: vark.fp = fp, or fclose( fp ); error1: fclose( fp )
AfterOpen(h, ret, flags) ==
    IF ret = "ok" /\ Has(flags, VARK_PERSISTENT_FP) THEN h + 1 ELSE h
\* VarkCloseArchive: if ( vark.fp ) fclose( vark.fp )
AfterClose(h, v) == IF v.fp THEN h - 1 ELSE h

(***************************************************************************)
(* The calls and their inputs.                                             *)
(***************************************************************************)
OpenFlags == 0..7
\* the modes the failure runs open the archive in: buffered reading, writing
IOFlags == {0, VARK_WRITE}
CompressFlags == {0, VARK_COMPRESS_SHARDED}

\* an upper bound of the fwrite calls of one append
MaxWrites == 4 + MaxSrcLen + 1 + 5 * MaxFiles + 2 + MaxFiles + 1
Schedules == {NoFault} \cup [failAt : 1..MaxWrites, sticky : BOOLEAN]

\* 2^32 * ShardSize: an offset whose shard index is 0 after the cast to uint32_t
WrapOffset == Mul64(<<0, 0, 0, 0, 1, 0, 0, 0>>, ShardSize)
\* WrapOffset + WrapSize = 1 modulo 2^64
WrapSize == Sub64(U64(1), WrapOffset)
SmallReqs == {U64(n) : n \in 0..MaxReq}
\* the (offset, size) pairs asked for: the small ones, and three whose sum wraps
Requests ==
    (SmallReqs \X SmallReqs)
    \cup {<<Max64, U64(2)>>, <<WrapOffset, WrapSize>>, <<U64(ShardSize), Max64>>}

NoCall == [op |-> "none", ret |-> "none", file |-> <<>>, flags |-> 0,
           offset |-> U64(0), size |-> U64(0), data |-> <<>>, decoded |-> <<>>,
           sch |-> NoFault]

\* the two source files, la and lb bytes long
Sources(la, lb) ==
    [p \in SrcPaths |-> IF p = PathA THEN Content(10, la) ELSE Content(20, lb)]

Init ==
    /\ vark = NewVark
    /\ disk = <<>>
    /\ exists = FALSE
    /\ \E la \in {MaxSrcLen - 1, MaxSrcLen} : src = Sources(la, MaxSrcLen - la)
    /\ faults = 0
    /\ handles = 0
    /\ last = NoCall

\* callers close an engine before they open it again: nothing is left to close
Closed(v) ==
    /\ ~v.fp
    /\ ~v.mmapHandle.open
    /\ v.tempBuffer = <<>>
    /\ v.tempShardBuffer = <<>>
    /\ v.fileLookup = EmptyMap

\* an injected failure counts, and is injected only where the call makes that fwrite
MayInject(sch) == sch # NoFault => faults < MaxFaults
Inject(sch, n) ==
    /\ sch # NoFault => sch.failAt <= n
    /\ faults' = IF sch = NoFault THEN faults ELSE faults + 1

\* VarkCreateArchive called on the engine as it is
CreateCall(flags, sch) ==
    /\ MayInject(sch)
    /\ LET r == VarkCreateArchive(vark, disk, exists, flags, sch)
       IN  /\ Inject(sch, r.n)
           /\ vark' = r.vark
           /\ disk' = r.disk
           /\ exists' = r.exists
           /\ handles' = AfterOpen(handles, r.ret, flags)
           /\ last' = [NoCall EXCEPT !.op = "create", !.ret = r.ret, !.flags = flags,
                                     !.sch = sch]
           /\ UNCHANGED src

Create(flags, sch) ==
    /\ Closed(vark)
    /\ CreateCall(flags, sch)

\* VarkLoadArchive called on the engine as it is
LoadCall(flags) ==
    LET r == VarkLoadArchive(vark, disk, exists, flags)
    IN  /\ vark' = r.vark
        /\ handles' = AfterOpen(handles, r.ret, flags)
        /\ last' = [NoCall EXCEPT !.op = "load", !.ret = r.ret, !.flags = flags]
        /\ UNCHANGED <<disk, exists, src, faults>>

Load(flags) ==
    /\ Closed(vark)
    /\ LoadCall(flags)

Close ==
    /\ vark' = VarkCloseArchive(vark)
    /\ handles' = AfterClose(handles, vark)
    /\ last' = [NoCall EXCEPT !.op = "close", !.ret = "ok"]
    /\ UNCHANGED <<disk, exists, src, faults>>

\* scheds: the failure schedules the caller's environment may inject
AppendFile(file, flags, scheds) ==
    /\ Len(vark.files) < MaxFiles
    /\ LET whole == VarkCompressAppendFile(vark, disk, exists, src, file, flags, NoFault)
       IN  \E sch \in {s \in scheds : s # NoFault => faults < MaxFaults /\ s.failAt <= whole.n} :
             LET r == IF sch = NoFault THEN whole
                      ELSE VarkCompressAppendFile(vark, disk, exists, src, file, flags, sch)
             IN  /\ faults' = IF sch = NoFault THEN faults ELSE faults + 1
                 /\ vark' = r.vark
                 /\ disk' = r.disk
                 /\ handles' = Release(Acquire(handles, OwnsWriteFP(vark, exists)),
                                        OwnsWriteFP(vark, exists))
                 /\ last' = [NoCall EXCEPT !.op = "append", !.ret = r.ret, !.file = file,
                                           !.flags = flags, !.sch = sch]
                 /\ UNCHANGED <<exists, src>>

\* the process dies inside an append, before one of its fwrite calls; a new process starts
AppendCrash(file, flags) ==
    /\ Len(vark.files) < MaxFiles
    /\ faults < MaxFaults
    /\ Has(vark.flags, VARK_WRITE)
    /\ LET whole == VarkCompressAppendFile(vark, disk, exists, src, file, flags, NoFault)
       IN  \E k \in 1..whole.n :
             LET sch == [failAt |-> k, sticky |-> TRUE]
                 r == VarkCompressAppendFile(vark, disk, exists, src, file, flags, sch)
             IN  /\ faults' = faults + 1
                 /\ vark' = NewVark
                 /\ disk' = r.disk
                 /\ handles' = 0
                 /\ last' = [NoCall EXCEPT !.op = "crash", !.ret = "none", !.file = file,
                                           !.flags = flags, !.sch = sch]
                 /\ UNCHANGED <<exists, src>>

DecompressFile(file) ==
    LET r == VarkDecompressFile(vark, disk, exists, file)
    IN  /\ vark' = r.vark
        /\ handles' = Release(Acquire(handles, OwnsReadFP(vark, exists)),
                               OwnsReadFP(vark, exists))
        /\ last' = [NoCall EXCEPT !.op = "decompress", !.ret = r.ret, !.file = file,
                                  !.data = r.data, !.decoded = r.decoded]
        /\ UNCHANGED <<disk, exists, src, faults>>

DecompressFileSharded(file, offset, size) ==
    LET r == VarkDecompressFileSharded(vark, disk, exists, file, offset, size)
    IN  /\ vark' = r.vark
        /\ handles' = Release(Acquire(handles, OwnsReadFP(vark, exists)),
                               OwnsReadFP(vark, exists))
        /\ last' = [NoCall EXCEPT !.op = "decompress_range", !.ret = r.ret,
                                  !.file = file, !.offset = offset, !.size = size,
                                  !.data = r.data, !.decoded = r.decoded]
        /\ UNCHANGED <<disk, exists, src, faults>>

FileSize(file) ==
    LET r == VarkFileSize(vark, disk, exists, file)
    IN  /\ vark' = r.vark
        /\ handles' = Release(Acquire(handles, OwnsReadFP(vark, exists)),
                               OwnsReadFP(vark, exists))
        /\ last' = [NoCall EXCEPT !.op = "file_size", !.ret = r.ret, !.file = file,
                                  !.data = r.data]
        /\ UNCHANGED <<disk, exists, src, faults>>

\* the interface of vark.h, every write succeeding
Next ==
    \/ \E flags \in OpenFlags : Create(flags, NoFault)
    \/ \E flags \in OpenFlags : Load(flags)
    \/ Close
    \/ \E file \in CallPaths, flags \in CompressFlags : AppendFile(file, flags, {NoFault})
    \/ \E file \in ReadPaths : DecompressFile(file)
    \/ \E file \in ReadPaths, req \in Requests :
          DecompressFileSharded(file, req[1], req[2])
    \/ \E file \in ReadPaths : FileSize(file)

Spec == Init /\ [][Next]_vars

\* writing with failing fwrite calls and a dying process, and loading what that leaves
NextIO ==
    \/ \E flags \in IOFlags, sch \in Schedules : Create(flags, sch)
    \/ \E flags \in IOFlags : Load(flags)
    \/ Close
    \/ \E file \in ReadPaths, flags \in CompressFlags : AppendFile(file, flags, Schedules)
    \/ \E file \in ReadPaths, flags \in CompressFlags : AppendCrash(file, flags)

InitIO ==
    /\ vark = NewVark
    /\ disk = <<>>
    /\ exists = FALSE
    /\ src = Sources(MaxSrcLen, 0)
    /\ faults = 0
    /\ handles = 0
    /\ last = NoCall

SpecIO == InitIO /\ [][NextIO]_vars

(***************************************************************************)
(* Archives of the format before sharding: the writer of version 1.02 (the *)
(* second copy of the library in vark.h), and files whose extension block  *)
(* was written with another count than the trailer's.                      *)
(***************************************************************************)
\* what VarkCreateArchive of version 1.02 leaves: the same 20 bytes
LegacyEmpty == MagicVARK \o U64(HeaderSize) \o U64(0)

\* the entry records as version 1.02 writes them, f.path.string() as it is
RECURSIVE LegacyTableWrites(_, _)
LegacyTableWrites(files, i) ==
    IF i > Len(files) THEN <<>>
    ELSE <<LE(Len(files[i].path), 4)>>
         \o (IF Len(files[i].path) > 0 THEN <<files[i].path>> ELSE <<>>)
         \o <<files[i].offset, files[i].size, files[i].hash>>
         \o LegacyTableWrites(files, i + 1)

\* VarkLoadArchive and VarkCompressAppendFile of version 1.02 run on the file d, every
\* write succeeding: the file they leave
LegacyAppendFile(d, srcs, file) ==
    LET tableOffsetBytes == ReadAt(d, 4, 8)
        tableOffset == Val(tableOffsetBytes)
        loaded == ReadEntries(d, tableOffset + 8, 0, Val(ReadAt(d, tableOffset, 8)),
                              <<>>, EmptyMap)
        srcData == srcs[GenericString(file)]
        dstData == lzav_compress_default(srcData)
        newFile == NewVarkFile(file, tableOffsetBytes, U64(8 + Len(dstData)),
                               VarkHash(srcData), LE(0, 4))
        files == Append(loaded.files, newFile)
        io1 == FWriteAll(OpenAt(d, tableOffset),
                         <<U64(Len(srcData))>>
                         \o (IF Len(dstData) > 0 THEN <<dstData>> ELSE <<>>), NoFault)
        io2 == FWriteAll(io1, <<U64(Len(files))>> \o LegacyTableWrites(files, 1), NoFault)
    IN  FWrite(FSeek(io2, 4), U64(io1.pos), NoFault).disk

\* where the entry records of the trailer of d end
TrailerEnd(d) ==
    LET tableOffset == Val(ReadAt(d, 4, 8))
    IN  ReadEntries(d, tableOffset + 8, 0, Val(ReadAt(d, tableOffset, 8)),
                    <<>>, EmptyMap).pos
EntryCount(d) == Val(ReadAt(d, Val(ReadAt(d, 4, 8)), 8))
HasExtension(d) == ReadAt(d, TrailerEnd(d), 4) = MagicVSHD

\* the file is a legacy archive of fewer than MaxFiles members; version 1.02 appends one
LegacyAppend(file) ==
    /\ Closed(vark)
    /\ EntryCount(disk) < MaxFiles
    /\ disk' = LegacyAppendFile(disk, src, file)
    /\ last' = [NoCall EXCEPT !.op = "legacy_append", !.ret = "ok", !.file = file]
    /\ UNCHANGED <<vark, exists, src, faults, handles>>

\* another writer adds an extension block for n entries, n not the trailer's count
ForeignExtension(n) ==
    /\ Closed(vark)
    /\ ~HasExtension(disk)
    /\ n # EntryCount(disk)
    /\ disk' = FWriteAll(OpenAt(disk, TrailerEnd(disk)),
                         <<MagicVSHD, U64(n)>> \o [i \in 1..n |-> LE(ShardSize, 4)],
                         NoFault).disk
    /\ last' = [NoCall EXCEPT !.op = "extension", !.ret = "ok"]
    /\ UNCHANGED <<vark, exists, src, faults, handles>>

InitLegacy ==
    /\ vark = NewVark
    /\ disk = LegacyEmpty
    /\ exists = TRUE
    /\ \E la \in {MaxSrcLen - 1, MaxSrcLen} : src = Sources(la, MaxSrcLen - la)
    /\ faults = 0
    /\ handles = 0
    /\ last = NoCall

\* legacy archives loaded and read by the present version
NextLegacy ==
    \/ \E file \in ReadPaths : LegacyAppend(file)
    \/ \E n \in 0..(MaxFiles + 1) : ForeignExtension(n)
    \/ \E flags \in OpenFlags : Load(flags)
    \/ Close
    \/ \E file \in ReadPaths : DecompressFile(file)
    \/ \E file \in ReadPaths : FileSize(file)

SpecLegacy == InitLegacy /\ [][NextLegacy]_vars

\* legacy archives, written before the present version opens them, are loaded by the
\* present version, which appends one member
NextUpgrade ==
    \/ \E file \in ReadPaths : vark = NewVark /\ LegacyAppend(file)
    \/ \E flags \in OpenFlags : Load(flags)
    \/ Close
    \/ \E file \in ReadPaths, flags \in CompressFlags :
          ~HasExtension(disk) /\ AppendFile(file, flags, {NoFault})
    \/ \E file \in ReadPaths : DecompressFile(file)
    \/ \E file \in ReadPaths : FileSize(file)

SpecUpgrade == InitLegacy /\ [][NextUpgrade]_vars

(***************************************************************************)
(* Archive files with one byte changed after they were written, and the    *)
(* verify mode (-v) of the command line tool.                              *)
(***************************************************************************)
\* the positions of the size field and of the hash field of every entry record
RECURSIVE EntryFields(_, _, _, _)
EntryFields(d, pos, i, count) ==
    IF i = count THEN {}
    ELSE LET rs == VarkReadString(d, pos)
         IN  {rs.pos + 8, rs.pos + 16} \cup EntryFields(d, rs.pos + 24, i + 1, count)

\* the bytes of d that may change: the bytes of the member bodies, and the lowest byte
\* of the size and of the hash of every entry; of these the ones that are not 0 (the
\* upper bytes of the small numbers stay 0, so that no length grows beyond a byte)
DamagePositions(d) ==
    LET tableOffset == Val(ReadAt(d, 4, 8))
    IN  {pos \in (HeaderSize..(tableOffset - 1))
                  \cup EntryFields(d, tableOffset + 8, 0, EntryCount(d)) :
            d[pos + 1] # 0}

\* every bit of the byte at pos turned, or the byte set to a small number
DamagedBytes(d, pos) == {255 - d[pos + 1], 7, 15} \ {d[pos + 1]}

\* what the verify mode prints for one entry, from the result r of decompressing it
VerdictNoHash(r, hash) ==
    IF r.ret = "ok" THEN "OK" ELSE "FAILED (Decompression error)"
Verdict(r, hash) ==
    IF r.ret # "ok" THEN "FAILED (Decompression error)"
    ELSE IF VarkHash(r.data) = hash THEN "OK"
    ELSE "FAILED (Hash mismatch)"

VerifyFile(v, d, ex, entry) == Verdict(VarkDecompressFile(v, d, ex, entry.path), entry.hash)

\* one verdict per entry of the loaded engine r.vark, in catalog order
VerifyLoaded(r, d, ex) ==
    [ret |-> r.ret,
     verdicts |-> IF r.ret # "ok" THEN <<>>
                  ELSE [i \in 1..Len(r.vark.files) |->
                           VerifyFile(r.vark, d, ex, r.vark.files[i])],
     vark |-> IF r.ret # "ok" THEN r.vark ELSE VarkCloseArchive(r.vark)]

\* the verify mode: the archive loaded mapped, then every entry verified
VerifyArchive(d, ex) == VerifyLoaded(VarkLoadArchive(NewVark, d, ex, VARK_MMAP), d, ex)

\* one byte of the closed archive file changes
Damage ==
    /\ Closed(vark)
    /\ faults < MaxFaults
    /\ EntryCount(disk) > 0
    /\ \E pos \in DamagePositions(disk) :
          \E byte \in DamagedBytes(disk, pos) : disk' = WriteAt(disk, pos, <<byte>>)
    /\ faults' = faults + 1
    /\ last' = [NoCall EXCEPT !.op = "damage", !.ret = "ok"]
    /\ UNCHANGED <<vark, exists, src, handles>>

\* the tool run with -v on the archive
Verify ==
    /\ Closed(vark)
    /\ \E r \in {VerifyArchive(disk, exists)} :
          /\ vark' = r.vark
          /\ last' = [NoCall EXCEPT !.op = "verify", !.ret = r.ret, !.decoded = r.verdicts]
    /\ UNCHANGED <<disk, exists, src, faults, handles>>

\* archives built with every write succeeding, then damaged, loaded, read and verified
NextDamaged ==
    \/ Create(VARK_WRITE, NoFault)
    \/ \E file \in ReadPaths, flags \in CompressFlags : AppendFile(file, flags, {NoFault})
    \/ Close
    \/ Damage
    \/ \E flags \in {0, VARK_MMAP} : Load(flags)
    \/ \E file \in ReadPaths : DecompressFile(file)
    \/ \E file \in ReadPaths : FileSize(file)
    \/ Verify

SpecDamaged == InitIO /\ [][NextDamaged]_vars

(***************************************************************************)
(* Calls in any order: create and load also on an engine that was not      *)
(* closed.                                                                 *)
(***************************************************************************)
NextHandles ==
    \/ \E flags \in OpenFlags : handles < MaxHandles /\ CreateCall(flags, NoFault)
    \/ \E flags \in OpenFlags : handles < MaxHandles /\ LoadCall(flags)
    \/ Close
    \/ \E flags \in CompressFlags : AppendFile(PathA, flags, {NoFault})
    \/ DecompressFile(PathA)
    \/ DecompressFileSharded(PathA, U64(1), U64(1))
    \/ FileSize(PathA)

SpecHandles == InitIO /\ [][NextHandles]_vars

(***************************************************************************)
(* What the claims speak of.                                               *)
(***************************************************************************)
\* what a new process finds in the file: the result of VarkLoadArchive, the catalog it
\* reads, and what VarkDecompressFile returns for each of its entries
Persisted(d, ex) ==
    LET r == VarkLoadArchive(NewVark, d, ex, 0)
    IN  [ret |-> r.ret, files |-> r.vark.files,
         contents |-> [i \in 1..Len(r.vark.files) |->
             LET x == VarkDecompressFile(r.vark, d, ex, r.vark.files[i].path)
             IN  <<x.ret, x.data>>]]

ReadOps == {"decompress", "decompress_range", "file_size"}
WriteMode == Has(vark.flags, VARK_WRITE)
\* the entry the last call looked up
LastEntry == Lookup(vark, last.file)
LastIsSharded == LastEntry # NoEntry /\ Val(LastEntry.shardSize) > 0
LastIsWhole == LastEntry # NoEntry /\ Val(LastEntry.shardSize) = 0
\* the uncompressed size of the member the last call named, as VarkFileSize reports it
LastU == Val(VarkFileSize(vark, disk, exists, last.file).data)
\* offset + size of the last call as unbounded integers, compared with u
SumExceeds(u) ==
    Val(last.offset) = Huge \/ Val(last.size) = Huge \/ Val(last.offset) + Val(last.size) > u

UniquePaths(files) ==
    \A i, j \in 1..Len(files) :
        i # j => GenericString(files[i].path) # GenericString(files[j].path)

(***************************************************************************)
(* C1.  Crash atomicity of append: when the process dies inside an append, *)
(* before any of its fwrite calls up to and including the rewrite of the   *)
(* header's trailer offset, a new process still loads the file, and finds  *)
(* the catalog and the member contents the file held before the append.    *)
(***************************************************************************)
C1_CrashAtomic ==
    [][last'.op = "crash" =>
          /\ Persisted(disk', exists').ret = "ok"
          /\ Persisted(disk', exists') = Persisted(disk, exists)]_vars

(***************************************************************************)
(* C2.  Round trip: on an engine that loaded the archive for reading,      *)
(* buffered or mapped, whose members have distinct paths and were appended *)
(* in any mix of the two layouts, VarkDecompressFile of a member succeeds  *)
(* and returns exactly the bytes of the source appended under that path.   *)
(***************************************************************************)
C2_RoundTrip ==
    (/\ last.op = "decompress"
     /\ ~WriteMode
     /\ LastEntry # NoEntry
     /\ UniquePaths(vark.files))
    => /\ last.ret = "ok"
       /\ last.data = src[GenericString(last.file)]

\* two members, one whole and one sharded, read through the mapping; the empty source
\* comes back empty
C2_Witness ==
    /\ last.op = "decompress"
    /\ last.ret = "ok"
    /\ Has(vark.flags, VARK_MMAP)
    /\ Len(vark.files) = 2
    /\ UniquePaths(vark.files)
    /\ vark.files[1].shardSize # vark.files[2].shardSize
    /\ last.file = PathDBw
    /\ src[PathDB] = <<>>
    /\ last.data = <<>>

(***************************************************************************)
(* C3.  Partial decode is the slice of the full decode: for a sharded      *)
(* member of uncompressed size U and a request (off, len) with             *)
(* off + len <= U, len = 0 included, VarkDecompressFileSharded succeeds    *)
(* and returns len bytes, the bytes [off, off + len) of what               *)
(* VarkDecompressFile returns for the member.                              *)
(***************************************************************************)
C3_PartialIsSlice ==
    LET full == VarkDecompressFile(vark, disk, exists, last.file)
        off == Val(last.offset)
        len == Val(last.size)
    IN  (/\ last.op = "decompress_range"
         /\ ~WriteMode
         /\ LastIsSharded
         /\ ~SumExceeds(LastU))
        => /\ last.ret = "ok"
           /\ full.ret = "ok"
           /\ Len(last.data) = len
           /\ last.data = SubSeq(full.data, off + 1, off + len)

\* a request that starts inside the first shard and ends in the second
C3_Witness ==
    /\ last.op = "decompress_range"
    /\ last.ret = "ok"
    /\ LastIsSharded
    /\ Val(last.offset) = ShardSize - 1
    /\ Val(last.size) = 2
    /\ Len(last.decoded) = 2
    /\ last.data = SubSeq(src[GenericString(last.file)], ShardSize, ShardSize + 1)

C5_ModeConflict ==
    [][(/\ last'.op \in {"create", "load"}
        /\ Has(last'.flags, VARK_WRITE)
        /\ Has(last'.flags, VARK_MMAP))
       => last'.ret = "fail" /\ UNCHANGED <<vark, disk, exists>>]_vars

\* create with all three flags over an archive that holds a member
C5_Witness ==
    /\ last.op = "create"
    /\ last.flags = VARK_WRITE + VARK_MMAP + VARK_PERSISTENT_FP
    /\ last.ret = "fail"
    /\ exists
    /\ Len(disk) > HeaderSize + 8

(***************************************************************************)
(* C6.  Out-of-range rejection: for a sharded member of uncompressed size  *)
(* U and a request whose length is at least 1 and whose offset + length,   *)
(* as unbounded integers, exceeds U, VarkDecompressFileSharded fails and   *)
(* decodes no shard.                                                       *)
(***************************************************************************)
C6_OutOfRange ==
    (/\ last.op = "decompress_range"
     /\ ~WriteMode
     /\ LastIsSharded
     /\ last.size # U64(0)
     /\ SumExceeds(LastU))
    => /\ last.ret = "fail"
       /\ last.decoded = <<>>

(***************************************************************************)
(* C7.  VarkDecompressFileSharded of a member stored in the whole layout   *)
(* fails for every offset and every length, and VarkDecompressFile of the  *)
(* member succeeds afterwards.                                             *)
(***************************************************************************)
C7_RangeOnWhole ==
    (/\ last.op = "decompress_range"
     /\ ~WriteMode
     /\ LastIsWhole)
    => /\ last.ret = "fail"
       /\ VarkDecompressFile(vark, disk, exists, last.file).ret = "ok"

(***************************************************************************)
(* C8.  Not found: on an engine opened without WRITE, VarkDecompressFile,  *)
(* VarkDecompressFileSharded and VarkFileSize fail whenever the generic    *)
(* form of the path is no key of the catalog, whatever the offset and the  *)
(* length.                                                                 *)
(***************************************************************************)
C8_NotFound ==
    (/\ last.op \in ReadOps
     /\ vark.path = ArchivePath
     /\ ~WriteMode
     /\ GenericString(last.file) \notin DOMAIN vark.fileLookup)
    => last.ret = "fail"

(***************************************************************************)
(* C9.  Persisted-archive invariants: in the file left by a create or an   *)
(* append that returned true and all of whose writes succeeded, also after *)
(* an earlier append of the engine failed part-way, the file starts with   *)
(* VARK, the header's trailer offset                                       *)
(* is where the trailer's entry count stands (12 after create), the        *)
(* trailer reads back, and every entry it holds has                        *)
(* offset + size <= trailer offset.                                        *)
(***************************************************************************)
C9_PersistedInvariants ==
    LET p == VarkLoadArchive(NewVark, disk, exists, 0)
        trailerOffset == ReadAt(disk, 4, 8)
    IN  (last.op \in {"create", "append"} /\ last.ret = "ok" /\ last.sch = NoFault)
        => /\ ReadAt(disk, 0, 4) = MagicVARK
           /\ Len(trailerOffset) = 8
           /\ last.op = "create" => trailerOffset = U64(HeaderSize)
           /\ ReadAt(disk, Val(trailerOffset), 8) = U64(Len(vark.files))
           /\ p.ret = "ok"
           /\ \A i \in 1..Len(p.vark.files) :
                  /\ Val(p.vark.files[i].offset) # Huge
                  /\ Val(p.vark.files[i].size) # Huge
                  /\ Val(p.vark.files[i].offset) + Val(p.vark.files[i].size)
                         <= Val(trailerOffset)

(***************************************************************************)
(* C10.  Paths are unique: after any sequence of appends, also of the same *)
(* source path twice, no two entries of the engine's catalog and no two    *)
(* entries of the persisted trailer have the same generic path.            *)
(***************************************************************************)
C10_UniquePaths ==
    /\ UniquePaths(vark.files)
    /\ exists => UniquePaths(VarkLoadArchive(NewVark, disk, exists, 0).vark.files)

\* the generic paths of a catalog, in its order
PathsOf(files) == [i \in 1..Len(files) |-> GenericString(files[i].path)]
\* files is the start of more
IsPrefix(files, more) ==
    Len(files) <= Len(more) /\ SubSeq(more, 1, Len(files)) = files

(***************************************************************************)
(* C11.  Catalog order is append order: create leaves an archive that      *)
(* loads with no entry, every append that returns true makes the archive   *)
(* load with the entries it loaded with before, in their order, followed   *)
(* by the appended path, and VarkLoadArchive hands the engine exactly that *)
(* entry array, whatever its flags.                                        *)
(***************************************************************************)
C11_AppendOrder ==
    [][/\ (last'.op = "create" /\ last'.ret = "ok")
          => Persisted(disk', exists').ret = "ok"
             /\ Persisted(disk', exists').files = <<>>
       /\ (last'.op = "append" /\ last'.ret = "ok")
          => Persisted(disk', exists').ret = "ok"
             /\ PathsOf(Persisted(disk', exists').files)
                    = Append(PathsOf(Persisted(disk, exists).files),
                             GenericString(last'.file))
       /\ (last'.op = "load" /\ last'.ret = "ok")
          => vark'.files = Persisted(disk, exists).files]_vars

\* reopened in mapped mode after d/b and then a were appended: the order is not sorted
C11_Witness ==
    /\ last.op = "load"
    /\ last.ret = "ok"
    /\ Has(vark.flags, VARK_MMAP)
    /\ PathsOf(vark.files) = <<PathDB, PathA>>

(***************************************************************************)
(* C12.  Members are immutable once committed: every append, whether it    *)
(* returns true or false, and also one the process dies in, leaves the     *)
(* file bytes from 12 up to the trailer offset the header held before the  *)
(* append as they were; every append that returns leaves every entry the   *)
(* catalog held, with its path, offset, size, hash and shard size, where   *)
(* it was, and removes none.                                               *)
(***************************************************************************)
C12_Immutable ==
    [][LET before == Val(ReadAt(disk, 4, 8))
       IN  /\ (last'.op \in {"append", "crash"} /\ Len(ReadAt(disk, 4, 8)) = 8
                /\ before # Huge)
               => /\ ReadAt(disk', HeaderSize, before - HeaderSize)
                         = ReadAt(disk, HeaderSize, before - HeaderSize)
                  /\ ReadAt(disk', 0, 4) = ReadAt(disk, 0, 4)
           /\ last'.op = "append" => IsPrefix(vark.files, vark'.files)]_vars

\* an append that failed after it had written its body behind one committed member
C12_Witness ==
    /\ last.op = "append"
    /\ last.ret = "fail"
    /\ last.sch.failAt > 2
    /\ Len(vark.files) = 2
    /\ Val(ReadAt(disk, 4, 8)) > HeaderSize

\* the last read call, made with the same arguments on engine v
SameCallOn(v) ==
    IF last.op = "decompress" THEN VarkDecompressFile(v, disk, exists, last.file)
    ELSE IF last.op = "decompress_range"
         THEN VarkDecompressFileSharded(v, disk, exists, last.file, last.offset, last.size)
    ELSE VarkFileSize(v, disk, exists, last.file)
\* the flags that differ from the engine's in VARK_MMAP, with and without the handle kept
OtherBackendFlags ==
    IF Has(vark.flags, VARK_MMAP) THEN {0, VARK_PERSISTENT_FP}
    ELSE {VARK_MMAP, VARK_MMAP + VARK_PERSISTENT_FP}
\* the engine is one VarkLoadArchive left for reading the archive file as it is
LoadedForReading ==
    /\ ~WriteMode
    /\ vark.path = ArchivePath
    /\ Persisted(disk, exists).ret = "ok"
    /\ vark.files = Persisted(disk, exists).files
    /\ vark.fileLookup # EmptyMap
    /\ Has(vark.flags, VARK_MMAP) => vark.mmapHandle.open
\* the call came back with true or with false
Returned(ret) == ret \in {"ok", "fail"}

(***************************************************************************)
(* C13.  Buffered/mapped equivalence: whenever VarkDecompressFile,         *)
(* VarkDecompressFileSharded or VarkFileSize has returned on an engine     *)
(* loaded for reading, the same call with the same arguments on an engine  *)
(* loaded from the same file with the other setting of VARK_MMAP (with or  *)
(* without VARK_PERSISTENT_FP) returns too, with the same true/false       *)
(* result and, on true, the same output bytes; and a call that does not    *)
(* return on one of them does not return on the other.  This holds over    *)
(* the archive files the interface writes (Spec); over files with one      *)
(* changed byte (SpecDamaged) it does not: VarkParseVSHF_MMAP compares the *)
(* entry's size with the bytes it needs, VarkParseVSHF_Fp does not.        *)
(***************************************************************************)
C13_BackendsAgree ==
    (last.op \in ReadOps /\ LoadedForReading)
    => \A flags \in OtherBackendFlags :
          LET other == VarkLoadArchive(NewVark, disk, exists, flags)
              r == SameCallOn(other.vark)
          IN  /\ other.ret = "ok"
              /\ (Returned(last.ret) \/ Returned(r.ret))
                 => /\ r.ret = last.ret
                    /\ last.ret = "ok" => r.data = last.data

(***************************************************************************)
(* C14.  Legacy compatibility: an archive written by version 1.02, whose   *)
(* trailer has no VSHD block, or one whose VSHD block gives another count  *)
(* than the trailer, loads with every flag combination that is allowed,    *)
(* every entry gets shardSize 0, and VarkDecompressFile of each member     *)
(* then succeeds on the whole-layout path (no shard is decoded) and        *)
(* returns the source's bytes.                                             *)
(***************************************************************************)
C14_Legacy ==
    /\ (last.op = "load" /\ ~ModeConflict(last.flags))
       => /\ last.ret = "ok"
          /\ Len(vark.files) = EntryCount(disk)
          /\ \A i \in 1..Len(vark.files) : vark.files[i].shardSize = LE(0, 4)
    /\ (last.op = "decompress" /\ ~WriteMode /\ LastEntry # NoEntry)
       => /\ last.ret = "ok"
          /\ last.decoded = <<>>
          /\ last.data = src[GenericString(last.file)]

\* a member of three bytes read from a file whose extension block has a differing count
C14_Witness ==
    /\ last.op = "decompress"
    /\ last.ret = "ok"
    /\ Len(last.data) = MaxSrcLen
    /\ HasExtension(disk)
    /\ EntryCount(disk) = 2

\* the catalog index of the file the verdict i of the verify mode is about
VerdictIsOf(i) == Persisted(disk, exists).files[i]
\* what VarkDecompressFile returns for that entry on the engine the verify mode loads
VerdictReads(i) ==
    LET r == VarkLoadArchive(NewVark, disk, exists, VARK_MMAP)
        x == VarkDecompressFile(r.vark, disk, exists, r.vark.files[i].path)
    IN  <<x.ret, x.data>>

(***************************************************************************)
(* C15 as stated: whenever VarkDecompressFile returns true, the FNV-1a 64  *)
(* of the bytes it returns is the hash of the entry (a decoder output of   *)
(* the recorded length but of another hash makes the call return false).   *)
(***************************************************************************)
C15_HashChecked ==
    (last.op = "decompress" /\ last.ret = "ok" /\ LastEntry # NoEntry)
    => VarkHash(last.data) = LastEntry.hash

(***************************************************************************)
(* C15, amended.  VarkDecompressFile does not look at the hash: for a      *)
(* whole-layout member it returns true with the decoder's bytes whenever   *)
(* the decoder yields the recorded length.  The comparison is made by the  *)
(* verify mode of the tool: it reports OK for an entry only if the bytes   *)
(* decompressed for its path are the source's bytes and hash to the        *)
(* entry's hash, and it reports a hash mismatch whenever decompression     *)
(* succeeds with bytes of another hash.                                    *)
(***************************************************************************)
C15_VerifyDetects ==
    /\ (last.op = "decompress" /\ ~WriteMode /\ LastIsWhole
        /\ Val(LastEntry.size) >= 8 /\ Val(LastEntry.size) # Huge)
       => LET pos == Val(LastEntry.offset)
              frame == ReadAt(disk, pos + 8, Val(LastEntry.size) - 8)
              res == lzav_decompress(frame, Val(ReadAt(disk, pos, 8)))
          IN  (res # LzavError /\ Len(frame) = Val(LastEntry.size) - 8)
              => last.ret = "ok" /\ last.data = res
    /\ (last.op = "verify" /\ last.ret = "ok")
       => \A i \in 1..Len(last.decoded) :
             LET entry == VerdictIsOf(i)
                 read == VerdictReads(i)
             IN  /\ last.decoded[i] = "OK"
                    => /\ read[1] = "ok"
                       /\ read[2] = src[GenericString(entry.path)]
                       /\ VarkHash(read[2]) = entry.hash
                 /\ (read[1] = "ok" /\ VarkHash(read[2]) # entry.hash)
                    => last.decoded[i] = "FAILED (Hash mismatch)"

\* a body byte was changed: decompression returns other bytes than the source's, and
\* the verify mode reports the mismatch
C15_Witness ==
    /\ last.op = "verify"
    /\ last.ret = "ok"
    /\ \E i \in 1..Len(last.decoded) :
          /\ last.decoded[i] = "FAILED (Hash mismatch)"
          /\ VerdictReads(i)[1] = "ok"
          /\ VerdictReads(i)[2] # src[GenericString(VerdictIsOf(i).path)]

(***************************************************************************)
(* C18.  VarkFileSize returns the source length: on an engine loaded for   *)
(* reading, buffered or mapped, and for every member of either layout of   *)
(* an archive file as it was written, it returns true, outSize is the      *)
(* length of the source and of what VarkDecompressFile returns; it reads   *)
(* nothing behind the first 8 bytes of a whole body or the first 16 of a   *)
(* sharded one (the file cut off there gives the same result); and it      *)
(* returns false when the entry's size is below 8 (whole) or 16 (sharded). *)
(***************************************************************************)
C18_FileSize ==
    (last.op = "file_size" /\ ~WriteMode /\ LastEntry # NoEntry)
    => LET need == IF LastIsSharded THEN 16 ELSE 8
           pos == Val(LastEntry.offset)
           dec == VarkDecompressFile(vark, disk, exists, last.file)
           cut == VarkFileSize(vark, ReadAt(disk, 0, pos + need), exists, last.file)
       IN  /\ Val(LastEntry.size) < need => last.ret = "fail"
           /\ faults = 0
              => /\ last.ret = "ok"
                 /\ Val(last.data) = Len(src[GenericString(last.file)])
                 /\ dec.ret = "ok"
                 /\ Len(dec.data) = Val(last.data)
           /\ pos # Huge => cut.ret = last.ret /\ cut.data = last.data

\* the size of a sharded member of three bytes, taken from the mapping
C18_Witness ==
    /\ last.op = "file_size"
    /\ last.ret = "ok"
    /\ LastIsSharded
    /\ UsesMap(vark)
    /\ faults = 0
    /\ Val(last.data) = MaxSrcLen

\* FNV-1a 64 (offset basis 14695981039346656037, prime 1099511628211, modulo 2^64) of
\* the source contents of the model, computed apart from VarkHash
ReferenceHash(bytes) ==
    CASE bytes = <<>> -> <<37, 35, 34, 132, 228, 156, 242, 203>>
      [] bytes = <<11>> -> <<42, 199, 1, 134, 76, 198, 99, 175>>
      [] bytes = <<11, 12>> -> <<146, 101, 5, 181, 7, 26, 81, 8>>
      [] bytes = <<11, 12, 13>> -> <<45, 173, 43, 152, 24, 218, 52, 39>>
      [] bytes = <<11, 12, 13, 14>> -> <<121, 50, 55, 146, 202, 186, 123, 202>>
      [] bytes = <<11, 12, 13, 14, 15>> -> <<130, 190, 202, 115, 54, 220, 112, 71>>
      [] bytes = <<21>> -> <<144, 202, 1, 134, 76, 200, 99, 175>>
      [] bytes = <<21, 22>> -> <<178, 33, 11, 181, 7, 224, 87, 8>>
      [] bytes = <<21, 22, 23>> -> <<95, 43, 234, 161, 24, 82, 115, 56>>
      [] bytes = <<21, 22, 23, 24>> -> <<165, 137, 231, 32, 219, 198, 31, 214>>
      [] bytes = <<21, 22, 23, 24, 25>> -> <<116, 10, 111, 233, 88, 162, 136, 191>>

(***************************************************************************)
(* C16.  Content hash: the entry an append that returns true adds carries  *)
(* the FNV-1a 64 of the source bytes; every entry a load reads from an     *)
(* archive built by such appends carries the FNV-1a 64 of its source; and  *)
(* the FNV-1a 64 of what VarkDecompressFile returns for a member is the    *)
(* hash stored in its entry.                                               *)
(***************************************************************************)
C16_ContentHash ==
    /\ (last.op = "append" /\ last.ret = "ok")
       => vark.files[Len(vark.files)].hash
              = ReferenceHash(src[GenericString(last.file)])
    /\ (last.op = "load" /\ last.ret = "ok")
       => \A i \in 1..Len(vark.files) :
             vark.files[i].hash
                 = ReferenceHash(src[GenericString(vark.files[i].path)])
    /\ (last.op = "decompress" /\ last.ret = "ok" /\ LastEntry # NoEntry)
       => /\ VarkHash(last.data) = LastEntry.hash
          /\ ReferenceHash(last.data) = LastEntry.hash

\* a sharded member of three bytes decompressed: its bytes hash to the stored hash
C16_Witness ==
    /\ last.op = "decompress"
    /\ last.ret = "ok"
    /\ LastIsSharded
    /\ Len(last.data) = MaxSrcLen
    /\ VarkHash(last.data) = LastEntry.hash

(***************************************************************************)
(* C17.  VarkCompressAppendFile reports every I/O error: an append during  *)
(* which an fwrite failed (of the body, of the entry count, of an entry    *)
(* record, of the VSHD block or of the header pointer) returns false.      *)
(***************************************************************************)
C17_ReportsErrors ==
    (last.op = "append" /\ last.sch # NoFault) => last.ret = "fail"

(***************************************************************************)
(* C19.  Sharded body layout: after an append with VARK_COMPRESS_SHARDED   *)
(* of a source of L bytes returned true, the body at the entry's offset is *)
(* VSHF, then the shard count ceil(L / ShardSize) (0 for L = 0, 1 for      *)
(* L = ShardSize, 2 for L = ShardSize + 1), then L as total size, then     *)
(* shard count + 1 offsets that start at 0 and never decrease; the entry   *)
(* size is 4 + 4 + 8 + 8 * (shard count + 1) + the last offset, the body   *)
(* ends where the new trailer starts, and the entry's shard size is        *)
(* ShardSize.                                                              *)
(***************************************************************************)
C19_ShardedLayout ==
    (last.op = "append" /\ last.ret = "ok" /\ Has(last.flags, VARK_COMPRESS_SHARDED))
    => LET entry == vark.files[Len(vark.files)]
           pos == Val(entry.offset)
           L == Len(src[GenericString(last.file)])
           shardCount == Val(ReadAt(disk, pos + 4, 4))
           offsets == OffsetArray(disk, pos + 16, shardCount + 1)
       IN  /\ ReadAt(disk, pos, 4) = MagicVSHF
           /\ shardCount * ShardSize >= L
           /\ L > 0 => (shardCount - 1) * ShardSize < L
           /\ L = 0 => shardCount = 0
           /\ L = ShardSize => shardCount = 1
           /\ L = ShardSize + 1 => shardCount = 2
           /\ ReadAt(disk, pos + 8, 8) = U64(L)
           /\ Len(offsets) = shardCount + 1
           /\ offsets[1] = U64(0)
           /\ \A i \in 1..shardCount : Val(offsets[i]) <= Val(offsets[i + 1])
           /\ Val(entry.size)
                  = 4 + 4 + 8 + 8 * (shardCount + 1) + Val(offsets[shardCount + 1])
           /\ pos + Val(entry.size) = Val(ReadAt(disk, 4, 8))
           /\ entry.shardSize = LE(ShardSize, 4)

\* a source one byte longer than the window, appended as the second member: two shards
C19_Witness ==
    /\ last.op = "append"
    /\ last.ret = "ok"
    /\ Has(last.flags, VARK_COMPRESS_SHARDED)
    /\ Len(src[GenericString(last.file)]) = ShardSize + 1
    /\ Len(vark.files) = 2
    /\ Val(ReadAt(disk, Val(vark.files[2].offset) + 4, 4)) = 2

(***************************************************************************)
(* C20.  Handle ownership: after any sequence of create, load, append,     *)
(* decompress, decompress_range, uncompressed_size and close calls at most *)
(* one FILE handle is open; the open handles are the one the engine holds  *)
(* in vark.fp (set only by an open with VARK_PERSISTENT_FP) and no other:  *)
(* what a call opened for itself it has closed; and after close none is    *)
(* open.                                                                   *)
(***************************************************************************)
C20_HandleOwnership ==
    /\ handles <= 1
    /\ handles = (IF vark.fp THEN 1 ELSE 0)
    /\ last.op = "close" => handles = 0

(***************************************************************************)
(* C21.  Close releases everything the engine holds: after VarkCloseArchive *)
(* the engine has no FILE handle and no mapping, tempBuffer and            *)
(* tempShardBuffer are empty, and a second VarkCloseArchive changes        *)
(* nothing.  This holds when every create and load is made on a closed     *)
(* engine (Spec); it does not when they are made on an engine that was not *)
(* closed (SpecHandles): the mapping is released only if the flags of the  *)
(* last create or load have VARK_MMAP.                                     *)
(***************************************************************************)
C21_CloseReleases ==
    last.op = "close"
    => /\ ~vark.fp
       /\ ~vark.mmapHandle.open
       /\ vark.tempBuffer = <<>>
       /\ vark.tempShardBuffer = <<>>
       /\ VarkCloseArchive(vark) = vark

\* the bytes of a whole trailer: entry count, entry records, VSHD block
TrailerBytes(files) ==
    Flatten(<<U64(Len(files))>> \o TableWrites(files, 1)
            \o <<MagicVSHD, U64(Len(files))>>
            \o [i \in 1..Len(files) |-> files[i].shardSize])
\* the file as the first k - 1 fwrite calls of the append of `file` leave it
BeforeWrite(k, file, flags) ==
    VarkCompressAppendFile(vark, disk, exists, src, file, flags,
                           [failAt |-> k, sticky |-> TRUE]).disk

(***************************************************************************)
(* C22.  Commit ordering: in every VarkCompressAppendFile that returns     *)
(* true, the fwrite of the new table offset at bytes 4..12 is the last     *)
(* fwrite of the call; no fwrite before it changes bytes 0..12; and when   *)
(* it is made the file already holds, from the old table offset on, the    *)
(* whole member body and behind it the entry count, every entry record and *)
(* the VSHD block of the new catalog.  This holds when every fwrite        *)
(* succeeds (Spec); with a failing fwrite whose result the call ignores    *)
(* (SpecIO) the call returns true over a trailer that is not whole.        *)
(***************************************************************************)
C22_CommitLast ==
    [][(last'.op = "append" /\ last'.ret = "ok")
       => \A whole \in {VarkCompressAppendFile(vark, disk, exists, src, last'.file,
                                               last'.flags, NoFault)} :
          \A beforeLast \in {BeforeWrite(whole.n, last'.file, last'.flags)} :
             LET entry == vark'.files[Len(vark'.files)]
                 newTableOffset == Val(entry.offset) + Val(entry.size)
             IN  \A committed \in {WriteAt(beforeLast, 4, U64(newTableOffset))} :
                    /\ \A k \in 1..whole.n :
                          ReadAt(BeforeWrite(k, last'.file, last'.flags), 0, HeaderSize)
                              = ReadAt(disk, 0, HeaderSize)
                    /\ Val(entry.offset) >= HeaderSize
                    /\ Len(beforeLast) = Len(disk')
                    /\ ReadAt(beforeLast, newTableOffset, Len(beforeLast) - newTableOffset)
                           = TrailerBytes(vark'.files)
                    /\ Persisted(committed, TRUE).contents[Len(vark'.files)]
                           = <<"ok", src[GenericString(last'.file)]>>
                    /\ disk' = committed]_vars

\* the number of fwrite calls that write the member body of an append
BodyWrites(srcData, flags) ==
    IF Has(flags, VARK_COMPRESS_SHARDED)
    THEN 4 + Len(SelectNonEmpty(ShardChunks(srcData)))
    ELSE IF Len(lzav_compress_default(srcData)) > 0 THEN 2 ELSE 1

(***************************************************************************)
(* C23.  The catalog gains the new entry only after the member body was    *)
(* written: when an fwrite of the body fails, in whole or in sharded       *)
(* layout, VarkCompressAppendFile leaves vark.files and vark.fileLookup as *)
(* they were.                                                              *)
(***************************************************************************)
C23_EntryAfterBody ==
    [][(/\ last'.op = "append"
        /\ last'.sch # NoFault
        /\ last'.sch.failAt <= BodyWrites(src[GenericString(last'.file)], last'.flags))
       => /\ vark'.files = vark.files
          /\ vark'.fileLookup = vark.fileLookup]_vars

(***************************************************************************)
(* C24.  Upgrade on append: the trailer a VarkCompressAppendFile writes    *)
(* ends with a VSHD block whose count is the entry count and whose shard   *)
(* sizes are those of the entries in catalog order.  After a legacy        *)
(* archive was loaded with VARK_WRITE and one member appended, loading the *)
(* file again gives every legacy entry with shardSize 0 and the new entry  *)
(* with its own (0, or ShardSize if appended sharded), and every legacy    *)
(* member decompresses to its source as before.                            *)
(***************************************************************************)
C24_Upgrade ==
    [][(last'.op = "append" /\ last'.ret = "ok")
       => \A before \in {Persisted(disk, exists)} :
          \A after \in {Persisted(disk', exists')} :
             LET n == Len(vark.files)
                 newTableOffset == Val(ReadAt(disk', 4, 8))
             IN  /\ ReadAt(disk', newTableOffset, Len(disk') - newTableOffset)
                        = TrailerBytes(vark'.files)
                 /\ HasExtension(disk')
                 /\ ReadAt(disk', TrailerEnd(disk') + 4, 8) = U64(EntryCount(disk'))
                 /\ Len(disk') = TrailerEnd(disk') + 12 + 4 * EntryCount(disk')
                 /\ after.ret = "ok"
                 /\ Len(after.files) = n + 1
                 /\ \A i \in 1..n :
                       /\ ReadAt(disk', TrailerEnd(disk') + 12 + 4 * (i - 1), 4) = LE(0, 4)
                       /\ after.files[i].shardSize = LE(0, 4)
                       /\ after.contents[i] = before.contents[i]
                       /\ after.contents[i]
                              = <<"ok", src[GenericString(vark.files[i].path)]>>
                 /\ after.files[n + 1].shardSize
                        = (IF Has(last'.flags, VARK_COMPRESS_SHARDED)
                           THEN LE(ShardSize, 4) ELSE LE(0, 4))
                 /\ ReadAt(disk', TrailerEnd(disk') + 12 + 4 * n, 4)
                        = after.files[n + 1].shardSize
                 /\ after.contents[n + 1] = <<"ok", src[GenericString(last'.file)]>>]_vars

\* a legacy archive of one member, upgraded by the append of a sharded second member
C24_Witness ==
    /\ last.op = "append"
    /\ last.ret = "ok"
    /\ Has(last.flags, VARK_COMPRESS_SHARDED)
    /\ HasExtension(disk)
    /\ EntryCount(disk) = 2
    /\ Persisted(disk, exists).files[1].shardSize = LE(0, 4)
    /\ Persisted(disk, exists).files[2].shardSize = LE(ShardSize, 4)

(***************************************************************************)
(* C25.  Errors are fatal to the operation, not to the engine: a           *)
(* VarkDecompressFile, VarkDecompressFileSharded or VarkFileSize call that *)
(* returns false leaves vark.files, vark.fileLookup, vark.flags and the    *)
(* archive's bytes as they were, and every read call issued next returns   *)
(* what it would have returned without the failed call.                    *)
(***************************************************************************)
\* what a caller sees of a read call: the return value and the bytes given back
Outcome(r) == <<r.ret, r.data>>
\* the read calls a caller may issue next
LaterCalls ==
    {<<"decompress", file, U64(0), U64(0)>> : file \in ReadPaths}
    \cup {<<"file_size", file, U64(0), U64(0)>> : file \in ReadPaths}
    \cup {<<"decompress_range", file, req[1], req[2]>> :
              file \in ReadPaths, req \in SmallReqs \X SmallReqs}
CallOn(v, d, ex, c) ==
    IF c[1] = "decompress" THEN VarkDecompressFile(v, d, ex, c[2])
    ELSE IF c[1] = "decompress_range"
         THEN VarkDecompressFileSharded(v, d, ex, c[2], c[3], c[4])
    ELSE VarkFileSize(v, d, ex, c[2])

C25_FailedReadHarmless ==
    [][(last'.op \in ReadOps /\ last'.ret = "fail")
       => /\ vark'.files = vark.files
          /\ vark'.fileLookup = vark.fileLookup
          /\ vark'.flags = vark.flags
          /\ disk' = disk
          /\ exists' = exists
          \* an engine left as it was answers as it did; one whose buffers the
          \* failed call resized is asked every call again
          /\ \/ vark' = vark
             \/ \A c \in LaterCalls :
                   Outcome(CallOn(vark', disk', exists', c))
                       = Outcome(CallOn(vark, disk, exists, c))]_vars

\* a range past the member's end was refused by an engine reading through fread,
\* after the member's header went through vark.tempBuffer, and the member still
\* decompresses
C25_Witness ==
    /\ last.op = "decompress_range"
    /\ last.ret = "fail"
    /\ ~UsesMap(vark)
    /\ Lookup(vark, last.file) # NoEntry
    /\ Val(Lookup(vark, last.file).shardSize) > 0
    /\ vark.tempBuffer # <<>>
    /\ VarkDecompressFile(vark, disk, exists, last.file).ret = "ok"
    /\ VarkDecompressFile(vark, disk, exists, last.file).data # <<>>

(***************************************************************************)
(* C26.  Minimal shard set: a VarkDecompressFileSharded call for a range   *)
(* (offset, size >= 1) with offset + size <= totalUncompressedSize on a    *)
(* sharded member of shard size S decodes exactly the shards i with        *)
(* offset / S <= i <= (offset + size - 1) / S, each once and in increasing *)
(* order, and every shard it decodes overlaps [offset, offset + size).     *)
(***************************************************************************)
\* totalUncompressedSize in the VSHF header of the member the last call named
LastTotal == Val(ReadAt(disk, Val(LastEntry.offset) + 8, 8))
\* the last call was a range call that passed the mode check, found a sharded
\* member and asked for a range inside it
ValidRangeCall ==
    /\ last.op = "decompress_range"
    /\ ~Has(vark.flags, VARK_WRITE)
    /\ LastEntry # NoEntry
    /\ Val(LastEntry.shardSize) > 0
    /\ Val(last.size) >= 1
    /\ Val(last.offset) # Huge
    /\ Val(last.size) # Huge
    /\ Val(last.offset) + Val(last.size) <= LastTotal
\* the integers lo..hi in increasing order
Ascending(lo, hi) == [k \in 1..(hi - lo + 1) |-> lo + k - 1]

C26_MinimalShards ==
    (ValidRangeCall /\ last.ret = "ok")
    => LET S == Val(LastEntry.shardSize)
           off == Val(last.offset)
           len == Val(last.size)
       IN  /\ last.decoded = Ascending(off \div S, (off + len - 1) \div S)
           /\ \A k \in 1..Len(last.decoded) :
                 /\ last.decoded[k] * S < off + len
                 /\ Min((last.decoded[k] + 1) * S, LastTotal) > off

\* a range of one byte in the second shard of a member of two shards
C26_Witness ==
    /\ ValidRangeCall
    /\ last.ret = "ok"
    /\ LastTotal > Val(LastEntry.shardSize)
    /\ Val(last.offset) >= Val(LastEntry.shardSize)
    /\ last.decoded = <<1>>

(***************************************************************************)
(* C27.  Memory/disk agreement: after a VarkCreateArchive and after every  *)
(* VarkCompressAppendFile that returns true, VarkLoadArchive on the file   *)
(* succeeds and reads a catalog equal to the writer's vark.files: as many  *)
(* entries, in the same order, each with the same path, offset, size, hash *)
(* and shardSize.                                                          *)
(***************************************************************************)
\* operator== of std::filesystem::path compares element by element, so the
\* separator a path was spelled with does not count
SamePath(p, q) == GenericString(p) = GenericString(q)

C27_MemoryDiskAgree ==
    (last.op \in {"create", "append"} /\ last.ret = "ok")
    => \A r \in {VarkLoadArchive(NewVark, disk, exists, 0)} :
          /\ r.ret = "ok"
          /\ Len(r.vark.files) = Len(vark.files)
          /\ \A i \in 1..Len(vark.files) :
                /\ SamePath(r.vark.files[i].path, vark.files[i].path)
                /\ r.vark.files[i].offset = vark.files[i].offset
                /\ r.vark.files[i].size = vark.files[i].size
                /\ r.vark.files[i].hash = vark.files[i].hash
                /\ r.vark.files[i].shardSize = vark.files[i].shardSize

(***************************************************************************)
(* C28.  Contiguous body area: in an archive built by VarkCreateArchive    *)
(* and appends that returned true, the first entry has offset 12, every    *)
(* further entry starts where the one before it ends (offset + size), the  *)
(* table offset in the header is the end of the last entry, and so no two  *)
(* members share a byte.  The entries are those VarkLoadArchive reads from *)
(* the file.                                                               *)
(***************************************************************************)
\* [offset, offset + size) of a catalog entry
BodyStart(f) == Val(f.offset)
BodyEnd(f) == Val(f.offset) + Val(f.size)

C28_ContiguousBodies ==
    (last.op \in {"create", "append"} /\ last.ret = "ok")
    => \A r \in {VarkLoadArchive(NewVark, disk, exists, 0)} :
       \A files \in {r.vark.files} :
          r.ret = "ok" =>
          /\ Len(files) > 0 => BodyStart(files[1]) = HeaderSize
          /\ \A i \in 2..Len(files) : BodyStart(files[i]) = BodyEnd(files[i - 1])
          /\ Val(ReadAt(disk, 4, 8))
                 = (IF Len(files) = 0 THEN HeaderSize ELSE BodyEnd(files[Len(files)]))
          /\ \A i, j \in 1..Len(files) :
                i < j => BodyEnd(files[i]) <= BodyStart(files[j])

(***************************************************************************)
(* C29.  Working-buffer bounds in partial decode: for every range the      *)
(* bounds check of VarkDecompressFileSharded accepts on a sharded member   *)
(* whose VSHF header satisfies the layout invariants, the output region    *)
(* [(i - firstShard) * S, (i - firstShard) * S + uSize) of every shard i   *)
(* of the loop lies inside the oversizedLen bytes of the working buffer,   *)
(* sliceOffset + size <= oversizedLen, and the indices i and i + 1 into    *)
(* the offset array are at most shardCount.                                *)
(***************************************************************************)
\* shardCount of the VSHF header of the member the last call named
LastShardCount == Val(ReadAt(disk, Val(LastEntry.offset) + 4, 4))
\* the last call was a range call that reached the bounds check of vark.h:499 on
\* a sharded member and passed it
AcceptedRangeCall ==
    /\ last.op = "decompress_range"
    /\ ~Has(vark.flags, VARK_WRITE)
    /\ last.size # U64(0)
    /\ LastEntry # NoEntry
    /\ Val(LastEntry.shardSize) > 0
    /\ UsesMap(vark) \/ HasReadFP(vark, exists)
    /\ ~Less64(ReadAt(disk, Val(LastEntry.offset) + 8, 8), Add64(last.offset, last.size))

C29_BufferBounds ==
    AcceptedRangeCall
    => LET S == Val(LastEntry.shardSize)
           firstShard == Val(FirstShard(last.offset, S))
           lastShard == Val(LastShard(last.offset, last.size, S))
           oversizedLen == Val(OversizedLen(last.offset, last.size, S,
                                            ReadAt(disk, Val(LastEntry.offset) + 8, 8)))
           sliceOffset == Val(SliceOffset(last.offset, FirstShard(last.offset, S), S))
           \* the loop runs: firstShard <= lastShard as uint32_t
           loopRuns == ~Less64(LastShard(last.offset, last.size, S),
                               FirstShard(last.offset, S))
       IN  /\ loopRuns
                 => /\ lastShard < LastShardCount
                    /\ \A i \in firstShard..Min(lastShard, LastShardCount) :
                          /\ (i - firstShard) * S + (Min(i * S + S, LastTotal) - i * S)
                                 <= oversizedLen
                          /\ i + 1 <= LastShardCount
           /\ Val(last.size) # Huge
           /\ sliceOffset # Huge
           /\ sliceOffset + Val(last.size) <= oversizedLen

(***************************************************************************)
(* C30.  Use after close: VarkCloseArchive empties vark.fileLookup and     *)
(* keeps vark.files, vark.flags and vark.path.  So a                       *)
(* VarkCompressAppendFile issued after it on an engine opened with         *)
(* VARK_WRITE is accepted: it opens the archive file for the call and      *)
(* leaves a trailer that lists every entry catalogued before, then the new *)
(* one.  And every VarkDecompressFile, VarkDecompressFileSharded and       *)
(* VarkFileSize issued after it on an engine opened without VARK_WRITE     *)
(* returns false, until the next VarkLoadArchive.                          *)
(***************************************************************************)
\* the engine was opened on the archive and closed, and not opened since
AfterCloseOf(v) ==
    /\ v.path = ArchivePath
    /\ v.fileLookup = EmptyMap
    /\ ~v.fp
    /\ last.op \in {"close"} \cup ReadOps \cup {"append"}
\* the catalogs agree entry by entry
SameEntries(fs, gs) ==
    /\ Len(fs) = Len(gs)
    /\ \A i \in 1..Len(fs) :
          /\ SamePath(fs[i].path, gs[i].path)
          /\ fs[i].offset = gs[i].offset
          /\ fs[i].size = gs[i].size
          /\ fs[i].hash = gs[i].hash
          /\ fs[i].shardSize = gs[i].shardSize

C30_UseAfterClose ==
    [][/\ last'.op = "close"
          => /\ vark'.fileLookup = EmptyMap
             /\ vark'.files = vark.files
             /\ vark'.flags = vark.flags
             /\ vark'.path = vark.path
       /\ (/\ last'.op = "append"
           /\ AfterCloseOf(vark)
           /\ Has(vark.flags, VARK_WRITE)
           /\ exists
           /\ GenericString(last'.file) \in DOMAIN src)
          => \A r \in {VarkLoadArchive(NewVark, disk', exists', 0)} :
                /\ last'.ret = "ok"
                /\ OwnsWriteFP(vark, exists)
                /\ ~vark'.fp
                /\ r.ret = "ok"
                /\ Len(r.vark.files) = Len(vark.files) + 1
                /\ SameEntries(SubSeq(r.vark.files, 1, Len(vark.files)), vark.files)
                /\ SamePath(r.vark.files[Len(r.vark.files)].path, last'.file)
                /\ SameEntries(r.vark.files, vark'.files)
       /\ (/\ last'.op \in ReadOps
           /\ AfterCloseOf(vark)
           /\ ~Has(vark.flags, VARK_WRITE))
          => last'.ret = "fail"]_vars

====
